---- MODULE Spec2Model ----
(***************************************************************************)
(* Paper-trading ledger and position accounting of the Upbit trading       *)
(* agent (agent_tools/tool_trade_paper_upbit.py), the live facade that     *)
(* shares its ledger file (agent_tools/tool_trade_upbit.py) and the        *)
(* dashboard's reader of that file (dashboard/data_access.py).             *)
(*                                                                         *)
(* Python floats are modelled as exact rationals [n, d] in lowest terms    *)
(* with d > 0; an absent optional argument (None) is the value with d = 0. *)
(* A dict is a function whose DOMAIN is its key set.                       *)
(***************************************************************************)
EXTENDS Integers, Sequences, FiniteSets, TLC

VARIABLES
    envPath,      \* RUNTIME_ENV_PATH is set in the process environment
    osEnv,        \* process environment variables read through os.getenv
    runtimeEnv,   \* the JSON dict stored in the runtime env file
    fileExists,   \* os.path.exists(position.jsonl) of the account
    ledger,       \* the lines of position.jsonl, in file order
    last,         \* the most recent facade call: its arguments and result, the
                  \* ledger file and runtime env before it, the runtime env after it
    seen,         \* the most recent read of the ledger file by a reader outside
                  \* a facade call: who read, and what the read returned
    calls,        \* per server process, the buy/sell call it is in the middle of
    serialized,   \* the buy/sell calls of the account run as a critical section
    dash          \* the dashboard process: its clock, its caches, its last call

vars == <<envPath, osEnv, runtimeEnv, fileExists, ledger, last, seen, calls,
          serialized, dash>>

----------------------------------------------------------------------------
(* Bounds of the model *)

\* the facade is not called once the ledger holds this many lines
MaxLedger == 3

----------------------------------------------------------------------------
(* Exact rational arithmetic standing for float arithmetic *)

Abs(x) == IF x < 0 THEN -x ELSE x

RECURSIVE GCD(_, _)
GCD(a, b) == IF b = 0 THEN a ELSE GCD(b, a % b)

Norm(n, d) ==
    LET g == GCD(Abs(n), d)
    IN  [n |-> n \div g, d |-> d \div g]

Rat(n, d) == IF d > 0 THEN Norm(n, d) ELSE Norm(-n, -d)
Whole(n) == [n |-> n, d |-> 1]
Zero == Whole(0)

RAdd(a, b) == Norm(a.n * b.d + b.n * a.d, a.d * b.d)
RSub(a, b) == Norm(a.n * b.d - b.n * a.d, a.d * b.d)
RMul(a, b) == Norm(a.n * b.n, a.d * b.d)
RDiv(a, b) == Rat(a.n * b.d, a.d * b.n)
RLt(a, b) == a.n * b.d < b.n * a.d
RGt(a, b) == RLt(b, a)
RLe(a, b) == ~RLt(b, a)
RGe(a, b) == ~RLt(a, b)

\* Python None for an optional numeric argument
None == [n |-> 0, d |-> 0]
IsNone(x) == x.d = 0

----------------------------------------------------------------------------
(* Module constants *)

QUOTE_CCY == "KRW"
FEE_RATE == Rat(1, 2000)
\* START_CASH_KRW is read from the environment; the value of the accounting
\* scenarios is used here
START_CASH_KRW == 1000000

----------------------------------------------------------------------------
(* dict helpers *)

EmptyDict == << >>

\* d.get(k, default)
Get(d, k, default) == IF k \in DOMAIN d THEN d[k] ELSE default

PutAlone(d, k, v) == [x \in {k} |-> v]

\* d[k] = v
Put(d, k, v) == [x \in (DOMAIN d) \cup {k} |-> IF x = k THEN v ELSE d[x]]

----------------------------------------------------------------------------
(* Symbols: a symbol string is the sequence of its "-"-separated parts *)

\* symbol.strip().upper() on one part
Upper(part) == IF part = "x" THEN "X" ELSE IF part = "krw" THEN "KRW" ELSE part

\* symbol.strip().upper().split("-")[-1]
CoinOf(symbol) == Upper(symbol[Len(symbol)])

_normalize_market(symbol) ==
    LET s == [i \in 1..Len(symbol) |-> Upper(symbol[i])]
    IN  IF Len(s) > 1 THEN s ELSE <<QUOTE_CCY>> \o s

----------------------------------------------------------------------------
(* Runtime configuration: the runtime env file and the process environment *)

\* a missing configuration value (Python None)
NoValue == "<None>"

\* _get_config_value(key): the runtime env file first, then os.getenv
_get_config_value(env, key) ==
    IF envPath /\ key \in DOMAIN env
    THEN env[key]
    ELSE Get(osEnv, key, NoValue)

\* _write_config_value(key, value): the new content of the runtime env file;
\* nothing is written when RUNTIME_ENV_PATH is not set
_write_config_value(env, key, value) ==
    IF ~envPath THEN env ELSE Put(env, key, value)

----------------------------------------------------------------------------
(* Ledger store *)

\* one line of position.jsonl.  json: json.loads accepts the text; wf: the
\* text is a JSON object with an integer id (a record); nl: the line ends
\* with its newline (only the last line of a file can lack it)
Record(id, this_action, positions, avg_costs, realized_pnl) ==
    [wf |-> TRUE, json |-> TRUE, nl |-> TRUE, id |-> id,
     this_action |-> this_action, positions |-> positions,
     avg_costs |-> avg_costs, realized_pnl |-> realized_pnl]

ThisAction(action, symbol, amount, market_order, gross, fee, fill_price) ==
    [action |-> action, symbol |-> symbol, amount |-> amount,
     market_order |-> market_order, gross |-> gross, fee |-> fee,
     fee_rate |-> FEE_RATE, fill_price |-> fill_price]

NoAction == ThisAction("", "", Zero, FALSE, Zero, Zero, Zero)

\* a line json.loads rejects: a cut-off record, two records run together
GarbledLine ==
    [Record(-1, NoAction, EmptyDict, EmptyDict, Zero)
         EXCEPT !.wf = FALSE, !.json = FALSE]

\* a line json.loads accepts but that is no object with an integer id (a
\* number, null, a list, an object whose id is no number): doc.get or int()
\* raises outside the inner try
NotRecordLine ==
    [Record(-1, NoAction, EmptyDict, EmptyDict, Zero) EXCEPT !.wf = FALSE]

NoState == [positions |-> EmptyDict, avg_costs |-> EmptyDict,
            realized_pnl |-> Zero, max_id |-> -1]

\* the loop of _read_last_ext over the lines from index i on
RECURSIVE ScanLines(_, _, _)
ScanLines(lines, i, acc) ==
    IF i > Len(lines) THEN acc
    ELSE LET doc == lines[i]
         IN  IF ~doc.json THEN ScanLines(lines, i + 1, acc)
             ELSE IF ~doc.wf THEN acc
             ELSE IF doc.id > acc.max_id
             THEN ScanLines(lines, i + 1,
                            [positions |-> doc.positions,
                             avg_costs |-> doc.avg_costs,
                             realized_pnl |-> doc.realized_pnl,
                             max_id |-> doc.id])
             ELSE ScanLines(lines, i + 1, acc)

\* f is the ledger file: [exists, lines]
_read_last_ext(f) ==
    IF ~f.exists THEN NoState ELSE ScanLines(f.lines, 1, NoState)

\* AppendText with the file opened for writing, not for appending
AppendTextTruncating(lines, record) == <<record>>

\* open(path, "a") and f.write(text + "\n"): the text goes after the last
\* byte of the file, so it continues a last line that lacks its newline, and
\* the line that results is no JSON text
AppendText(lines, record) ==
    IF Len(lines) > 0 /\ ~lines[Len(lines)].nl
    THEN [lines EXCEPT ![Len(lines)] = GarbledLine]
    ELSE Append(lines, record)

\* NextId without the increment: an id that is already in the ledger
NextIdRepeated(last_id) == IF last_id < 0 THEN 0 ELSE last_id

\* the id stamped on a new record
NextId(last_id) == last_id + 1

_write_snapshot(f, positions, this_action, avg_costs, realized_pnl) ==
    LET last_id == _read_last_ext(f).max_id
        record == Record(NextId(last_id), this_action, positions,
                         avg_costs, realized_pnl)
    IN  [exists |-> TRUE, lines |-> AppendText(f.lines, record), record |-> record]

FileOf(w) == [exists |-> w.exists, lines |-> w.lines]

InitAction == ThisAction("init", "", Zero, FALSE, Zero, Zero, Zero)

\* _bootstrap_if_missing without its existence check
BootstrapUnchecked(f) ==
    FileOf(_write_snapshot(f, [k \in {"CASH"} |-> Whole(START_CASH_KRW)],
                           InitAction, EmptyDict, Zero))

_bootstrap_if_missing(f) ==
    IF f.exists THEN f
    ELSE FileOf(_write_snapshot(f, [k \in {"CASH"} |-> Whole(START_CASH_KRW)],
                                InitAction, EmptyDict, Zero))

----------------------------------------------------------------------------
(* Position accounting *)

\* fee_cost = gross * FEE_RATE
FeeOf(gross) == RMul(gross, FEE_RATE)

\* TotalCost with the fee left out
TotalCostWithoutFee(gross_cost) == gross_cost

\* total_cost = gross_cost + fee_cost
TotalCost(gross_cost) == RAdd(gross_cost, FeeOf(gross_cost))

\* NetProceeds with the fee left out
NetProceedsWithoutFee(gross_proceeds) == gross_proceeds

\* net_proceeds = gross_proceeds - fee_cost
NetProceeds(gross_proceeds) == RSub(gross_proceeds, FeeOf(gross_proceeds))

\* InsufficientCash with the comparison turned around
InsufficientCashReversed(total_cost, cash) == RGt(cash, total_cost)

\* the rejection test of buy
InsufficientCash(total_cost, cash) == RGt(total_cost, cash)

\* InsufficientPosition with the comparison turned around
InsufficientPositionReversed(amount, holding) == RGt(holding, amount)

\* the rejection test of sell
InsufficientPosition(amount, holding) == RGt(amount, holding)

\* BuyAvgCost that keeps the last fill price instead of the weighted mean
BuyAvgCostLastFill(prev_avg, prev_qty, fill_price, qty, new_qty) == fill_price

\* avg_costs[coin] after a buy
BuyAvgCost(prev_avg, prev_qty, fill_price, qty, new_qty) ==
    IF RGt(new_qty, Zero)
    THEN RDiv(RAdd(RMul(prev_avg, prev_qty), RMul(fill_price, qty)), new_qty)
    ELSE fill_price

\* SellRealizedPnl computed from the net proceeds: the fee is taken out
SellRealizedPnlNet(realized_pnl, fill_price, prev_avg, qty) ==
    RSub(RAdd(realized_pnl, RMul(RSub(fill_price, prev_avg), qty)),
         FeeOf(RMul(qty, fill_price)))

\* realized_pnl after a sell
SellRealizedPnl(realized_pnl, fill_price, prev_avg, qty) ==
    RAdd(realized_pnl, RMul(RSub(fill_price, prev_avg), qty))

\* SellAvgCosts without the reset of a closed position
SellAvgCostsKept(avg_costs, coin, new_qty) == avg_costs

\* avg_costs after a sell that leaves new_qty of coin
SellAvgCosts(avg_costs, coin, new_qty) ==
    IF RLe(new_qty, Zero) THEN Put(avg_costs, coin, Zero) ELSE avg_costs

----------------------------------------------------------------------------
(* Order execution facade: each operator is the handler after its SIGNATURE *)
(* check and yields the file, the runtime env and the returned result       *)

\* no "snapshot" in the result
NoSnapshot == Record(-1, NoAction, EmptyDict, EmptyDict, Zero)

NoInfo == [cash |-> Zero, required |-> Zero, fee |-> Zero,
           have |-> Zero, want |-> Zero, held |-> {},
           balances |-> EmptyDict, avg_costs |-> EmptyDict,
           realized_pnl |-> Zero, snapshot |-> NoSnapshot, posted |-> FALSE]

Reply(f, env, result, info) ==
    [file |-> f, env |-> env, result |-> result, info |-> info]

BuyFill(f, env, cur, coin, qty, gross_cost, fill_price, market_order) ==
    LET cash == Get(cur.positions, "CASH", Zero)
        fee_cost == FeeOf(gross_cost)
        total_cost == TotalCost(gross_cost)
    IN  IF InsufficientCash(total_cost, cash)
        THEN Reply(f, env, "Insufficient cash",
                   [NoInfo EXCEPT !.cash = cash, !.required = total_cost,
                                  !.fee = fee_cost])
        ELSE LET positions1 == Put(cur.positions, "CASH", RSub(cash, total_cost))
                 prev_qty == Get(positions1, coin, Zero)
                 positions2 == Put(positions1, coin, RAdd(prev_qty, qty))
                 prev_avg == Get(cur.avg_costs, coin, Zero)
                 new_qty == positions2[coin]
                 avg_costs == Put(cur.avg_costs, coin,
                                  BuyAvgCost(prev_avg, prev_qty, fill_price,
                                             qty, new_qty))
                 env1 == _write_config_value(env, "IF_TRADE", TRUE)
                 w == _write_snapshot(f, positions2,
                          ThisAction("buy", coin, qty, market_order,
                                     gross_cost, fee_cost, fill_price),
                          avg_costs, cur.realized_pnl)
             IN  Reply(FileOf(w), env1, "filled",
                       [NoInfo EXCEPT !.cash = cash, !.required = total_cost,
                                      !.fee = fee_cost, !.snapshot = w.record])

\* the test of buy on the price the feed returned
BuyPriceUnusable(fill_price) == RLe(fill_price, Zero)

buy(f0, env, symbol, amount, price, market_order, feed) ==
    LET f == _bootstrap_if_missing(f0)
        cur == _read_last_ext(f)
        coin == CoinOf(symbol)
        fill_price == feed
    IN  IF BuyPriceUnusable(fill_price)
        THEN Reply(f, env, "Failed to fetch ticker price", NoInfo)
        ELSE IF market_order
        THEN IF IsNone(price)
             THEN Reply(f, env, "For market buy, price must be KRW amount to spend",
                        NoInfo)
             ELSE BuyFill(f, env, cur, coin, RDiv(price, fill_price), price,
                          fill_price, market_order)
        ELSE IF IsNone(price) \/ IsNone(amount)
             THEN Reply(f, env, "Limit buy needs both price and amount", NoInfo)
             ELSE BuyFill(f, env, cur, coin, amount, RMul(amount, price),
                          price, market_order)

SellFill(f, env, cur, coin, holding, qty, fill_price, market_order) ==
    LET gross_proceeds == RMul(qty, fill_price)
        fee_cost == FeeOf(gross_proceeds)
        net_proceeds == NetProceeds(gross_proceeds)
        positions1 == Put(cur.positions, coin, RSub(holding, qty))
        positions2 == Put(positions1, "CASH",
                          RAdd(Get(positions1, "CASH", Zero), net_proceeds))
        prev_avg == Get(cur.avg_costs, coin, Zero)
        realized_pnl == SellRealizedPnl(cur.realized_pnl, fill_price, prev_avg, qty)
        avg_costs == SellAvgCosts(cur.avg_costs, coin, positions2[coin])
        env1 == _write_config_value(env, "IF_TRADE", TRUE)
        w == _write_snapshot(f, positions2,
                 ThisAction("sell", coin, qty, market_order,
                            gross_proceeds, fee_cost, fill_price),
                 avg_costs, realized_pnl)
    IN  Reply(FileOf(w), env1, "filled",
              [NoInfo EXCEPT !.have = holding, !.want = qty, !.fee = fee_cost,
                             !.snapshot = w.record])

\* SellPriceUnusable that lets a price of 0 through
SellPriceUnusableBelowZero(fill_price) == RLt(fill_price, Zero)

\* the test of sell on the price the feed returned
SellPriceUnusable(fill_price) == RLe(fill_price, Zero)

sell(f0, env, symbol, amount, price, market_order, feed) ==
    LET f == _bootstrap_if_missing(f0)
        cur == _read_last_ext(f)
        coin == CoinOf(symbol)
        holding == Get(cur.positions, coin, Zero)
    IN  IF InsufficientPosition(amount, holding)
        THEN Reply(f, env, "Insufficient position",
                   [NoInfo EXCEPT !.have = holding, !.want = amount])
        ELSE IF SellPriceUnusable(feed)
        THEN Reply(f, env, "Failed to fetch ticker price", NoInfo)
        ELSE IF ~market_order /\ IsNone(price)
        THEN Reply(f, env, "Limit sell requires price", NoInfo)
        ELSE SellFill(f, env, cur, coin, holding, amount,
                      IF market_order THEN feed ELSE price, market_order)

HeldCoinsWithCash(positions) ==
    {k \in DOMAIN positions : RGt(positions[k], Zero)}

\* the non-CASH symbols with a quantity > 0
HeldCoins(positions) ==
    {k \in DOMAIN positions : k # "CASH" /\ RGt(positions[k], Zero)}

get_balance(f0, env) ==
    LET f == _bootstrap_if_missing(f0)
        cur == _read_last_ext(f)
    IN  Reply(f, env, "balances",
              [NoInfo EXCEPT !.cash = Get(cur.positions, "CASH", Zero),
                             !.held = HeldCoins(cur.positions),
                             !.balances = cur.positions,
                             !.avg_costs = cur.avg_costs,
                             !.realized_pnl = cur.realized_pnl])

----------------------------------------------------------------------------
(* Inputs of the calls *)

Symbols == {<<"x">>, <<"KRW", "Y">>}
Coins == {CoinOf(s) : s \in Symbols}

\* what _ticker_price returns: 0 when the feed gave no usable price
FeedPrices == {Zero, Whole(1000)}

Request(amount, price, market_order) ==
    [amount |-> amount, price |-> price, market_order |-> market_order]

\* (amount, price, market_order) of a buy: a market buy spends `price` KRW,
\* a limit buy takes `amount` coins at `price`
BuyRequests ==
    {Request(None, p, TRUE) : p \in {None, Zero, Whole(100000), Whole(2000000)}}
    \cup
    {Request(None, Whole(1200), FALSE), Request(Whole(50), None, FALSE),
     Request(Whole(50), Whole(1200), FALSE), Request(Whole(-50), Whole(1200), FALSE)}

\* (amount, price, market_order) of a sell
SellRequests ==
    {Request(q, None, TRUE) : q \in {Whole(-50), Whole(50), Whole(100)}}
    \cup
    {Request(Whole(50), None, FALSE), Request(Whole(50), Whole(1200), FALSE)}

----------------------------------------------------------------------------
(* State machine *)

NoCall ==
    [op |-> "none", symbol |-> << >>, amount |-> None, price |-> None,
     market_order |-> FALSE, feed |-> Zero, result |-> "", info |-> NoInfo,
     pre |-> [exists |-> FALSE, lines |-> << >>], preEnv |-> EmptyDict,
     env |-> EmptyDict]

File == [exists |-> fileExists, lines |-> ledger]

NoRequest == Request(None, None, FALSE)

NoRead == [by |-> "none", state |-> NoState, rows |-> << >>,
           file |-> [exists |-> FALSE, lines |-> << >>]]

\* either deployment: the runtime env file is configured and main() writes
\* SIGNATURE into it, or there is none and SIGNATURE is a process
\* environment variable
Deployed ==
    /\ envPath \in BOOLEAN
    /\ osEnv = IF envPath THEN EmptyDict ELSE [k \in {"SIGNATURE"} |-> "acct"]
    /\ runtimeEnv = EmptyDict

NoFile == [exists |-> FALSE, lines |-> << >>]

\* the server processes that take calls for the account
Writers == {1, 2}

IdleCall ==
    [pc |-> "idle", op |-> "none", symbol |-> << >>, req |-> NoRequest,
     feed |-> Zero, reply |-> Reply(NoFile, EmptyDict, "", NoInfo),
     pre |-> NoFile, preEnv |-> EmptyDict, last_id |-> -1]

\* a limit argument: None, or an integer
NoLimit == [some |-> FALSE, n |-> 0]

Limit(n) == [some |-> TRUE, n |-> n]

\* no request was made to the ticker endpoint of the exchange
NoAnswer == [status |-> 0, listed |-> {}]

\* no result of a dashboard call
NoOutput ==
    [op |-> "none", limit |-> NoLimit, raised |-> FALSE, value |-> << >>,
     response |-> "none", file |-> NoFile, miss |-> FALSE, expired |-> FALSE,
     answer |-> NoAnswer, late |-> FALSE]

\* the dashboard process right after its start: _CACHE = {}, _price_cache = {}.
\* written: the time of the most recent append that was timed, -1 if none
ColdDashboard ==
    [now |-> 0, cache |-> EmptyDict, price_cache |-> EmptyDict,
     feed_up |-> TRUE, out |-> NoOutput, written |-> -1]

\* no call has been made or is in progress and no reader has read
Quiet ==
    /\ last = NoCall
    /\ seen = NoRead
    /\ calls = [w \in Writers |-> IdleCall]
    /\ dash = ColdDashboard

\* A fresh account (no ledger file), in either deployment
Init ==
    /\ Deployed
    /\ fileExists = FALSE
    /\ ledger = << >>
    /\ Quiet
    /\ serialized = TRUE

\* main(): the runtime configuration written before an agent runs
InitRuntime ==
    /\ runtimeEnv' = _write_config_value(
                         _write_config_value(runtimeEnv, "SIGNATURE", "acct"),
                         "IF_TRADE", FALSE)
    /\ UNCHANGED <<envPath, osEnv, fileExists, ledger, last, seen, calls,
                   serialized, dash>>

\* the effect of a handler that returned reply r
Returned(op, symbol, req, feed, r) ==
    /\ fileExists' = r.file.exists
    /\ ledger' = r.file.lines
    /\ runtimeEnv' = r.env
    /\ last' = [op |-> op, symbol |-> symbol, amount |-> req.amount,
                price |-> req.price, market_order |-> req.market_order,
                feed |-> feed, result |-> r.result, info |-> r.info,
                pre |-> File, preEnv |-> runtimeEnv, env |-> r.env]
    /\ UNCHANGED <<envPath, osEnv, seen, calls, serialized, dash>>

Handle(op, symbol, req, feed) ==
    IF _get_config_value(runtimeEnv, "SIGNATURE") = NoValue
    THEN Reply(File, runtimeEnv, "SIGNATURE is not set", NoInfo)
    ELSE IF op = "buy"
    THEN buy(File, runtimeEnv, symbol, req.amount, req.price, req.market_order, feed)
    ELSE IF op = "sell"
    THEN sell(File, runtimeEnv, symbol, req.amount, req.price, req.market_order, feed)
    ELSE get_balance(File, runtimeEnv)

Buy ==
    /\ Len(ledger) < MaxLedger
    /\ \E symbol \in Symbols, req \in BuyRequests, feed \in FeedPrices :
           Returned("buy", symbol, req, feed, Handle("buy", symbol, req, feed))

Sell ==
    /\ Len(ledger) < MaxLedger
    /\ \E symbol \in Symbols, req \in SellRequests, feed \in FeedPrices :
           Returned("sell", symbol, req, feed, Handle("sell", symbol, req, feed))

GetBalance ==
    /\ Len(ledger) < MaxLedger
    /\ Returned("get_balance", << >>, NoRequest, Zero,
                Handle("get_balance", << >>, NoRequest, Zero))

Next == InitRuntime \/ GetBalance \/ Buy \/ Sell

Spec == Init /\ [][Next]_vars

\* a buy or sell that gets as far as its snapshot while the ledger file can
\* no longer be opened for appending: open(path, "a") of _write_snapshot
\* raises OSError, buy and sell catch nothing, the caller gets the exception
AppendFails(op) ==
    /\ fileExists
    /\ Len(ledger) < MaxLedger
    /\ \E symbol \in Symbols, feed \in FeedPrices,
          req \in (IF op = "buy" THEN BuyRequests ELSE SellRequests) :
           LET r == Handle(op, symbol, req, feed)
           IN  /\ r.result = "filled"
               /\ Returned(op, symbol, req, feed,
                           Reply(File, r.env, "OSError", NoInfo))

BuyAppendFails == AppendFails("buy")

SellAppendFails == AppendFails("sell")

NextStorage == Next \/ BuyAppendFails \/ SellAppendFails

SpecStorage == Init /\ [][NextStorage]_vars

----------------------------------------------------------------------------
(* Live facade (agent_tools/tool_trade_upbit.py): orders go to the exchange *)
(* and the snapshot is taken from the exchange balances.  It keeps its      *)
(* snapshots in the same position.jsonl as the paper facade.                *)

\* float(text) of the numerals used in the environment
Float(text) ==
    CASE text = "0" -> Zero
      [] text = "50000" -> Whole(50000)
      [] OTHER -> None

\* text.lower()
Lower(text) ==
    IF text = "FALSE" THEN "false" ELSE IF text = "No" THEN "no" ELSE text

\* UPBIT_DRY_RUN: anything but false/0/no keeps orders from being sent
DRY_RUN == Lower(Get(osEnv, "UPBIT_DRY_RUN", "true")) \notin {"false", "0", "no"}

\* MAX_MARKET_BUY_KRW with the guard switched off
CapDisabled == Zero

\* UPBIT_MAX_BUY_KRW: cap of a market buy, 0 for none; an empty value is
\* read as "0", and a value float() rejects gives 0.0
MAX_MARKET_BUY_KRW ==
    LET text == Get(osEnv, "UPBIT_MAX_BUY_KRW", "0")
        value == Float(IF text = "" THEN "0" ELSE text)
    IN  IF IsNone(value) THEN Zero ELSE value

\* get_config_value of tools.general_tools
get_config_value(env, key) == _get_config_value(env, key)

\* write_config_value of tools.general_tools
write_config_value(env, key, value) == _write_config_value(env, key, value)

\* the loop of the live _read_last_ext: json.loads is not in a try of its
\* own, so the first line that is no record ends the scan
RECURSIVE LiveScanLines(_, _, _)
LiveScanLines(lines, i, acc) ==
    IF i > Len(lines) THEN acc
    ELSE LET doc == lines[i]
         IN  IF ~doc.wf THEN acc
             ELSE IF doc.id > acc.max_id
             THEN LiveScanLines(lines, i + 1,
                                [positions |-> doc.positions,
                                 avg_costs |-> doc.avg_costs,
                                 realized_pnl |-> doc.realized_pnl,
                                 max_id |-> doc.id])
             ELSE LiveScanLines(lines, i + 1, acc)

LiveReadLastExt(f) ==
    IF ~f.exists THEN NoState ELSE LiveScanLines(f.lines, 1, NoState)

LiveAction(action, symbol, amount, market_order, requested_krw, moved_krw, coin_delta) ==
    [action |-> action, symbol |-> symbol, amount |-> amount,
     market_order |-> market_order, gross |-> moved_krw, fee |-> None,
     fee_rate |-> FEE_RATE, fill_price |-> None,
     requested_krw |-> requested_krw, coin_delta |-> coin_delta]

_write_position_snapshot(f, positions, this_action, avg_costs, realized_pnl) ==
    LET last_id == LiveReadLastExt(f).max_id
        record == Record(NextId(last_id), this_action, positions,
                         avg_costs, realized_pnl)
    IN  [exists |-> TRUE, lines |-> AppendText(f.lines, record), record |-> record]

\* _submit_order without the dry-run return
SubmitOrderAlways(answer) == [result |-> answer, posted |-> TRUE]

\* what _submit_order gives for the answer of the exchange: no request is
\* sent in a dry run.  posted: _post was called, a request went to the
\* exchange
_submit_order(answer) ==
    IF DRY_RUN THEN [result |-> "dry_run", posted |-> FALSE]
    ELSE [result |-> answer, posted |-> TRUE]

\* a call that ends in an exception instead of a result
Raise(f, env, exception) == Reply(f, env, exception, NoInfo)

Exceptions == {"ValueError: SIGNATURE environment variable is not set"}

\* the end of the live buy, from the balances after the order on
LiveBuyRecorded(f, env, symbol, amount, price, market_order, pre_bal, post_bal, order) ==
    LET env1 == write_config_value(env, "IF_TRADE", TRUE)
        coin == CoinOf(symbol)
        pre_qty == Get(pre_bal, coin, Zero)
        post_qty == Get(post_bal, coin, Zero)
        delta_qty == RSub(post_qty, pre_qty)
        delta_cash == RSub(Get(post_bal, "CASH", Zero), Get(pre_bal, "CASH", Zero))
        prev == LiveReadLastExt(f)
        moved == RGt(delta_qty, Zero) /\ RLt(delta_cash, Zero)
        krw_spent == RSub(Zero, delta_cash)
        prev_avg == Get(prev.avg_costs, coin, Zero)
        avg_costs ==
            IF moved
            THEN Put(prev.avg_costs, coin,
                     BuyAvgCost(prev_avg, pre_qty, RDiv(krw_spent, delta_qty),
                                delta_qty, post_qty))
            ELSE prev.avg_costs
        this_action ==
            LiveAction("buy", coin, IF market_order THEN None ELSE amount,
                       market_order, IF market_order THEN price ELSE None,
                       IF moved THEN krw_spent ELSE None,
                       IF moved THEN delta_qty ELSE None)
        w == _write_position_snapshot(f,
                 IF post_bal # EmptyDict THEN post_bal ELSE pre_bal,
                 this_action, avg_costs, prev.realized_pnl)
    IN  Reply(FileOf(w), env1, order.result,
              [NoInfo EXCEPT !.posted = order.posted])

live_buy(f, env, symbol, amount, price, market_order, pre_bal, post_bal, answer) ==
    IF get_config_value(env, "SIGNATURE") = NoValue
    THEN Raise(f, env, "ValueError: SIGNATURE environment variable is not set")
    ELSE IF market_order /\ IsNone(price)
    THEN Reply(f, env, "For market buy, 'price' must be the KRW amount to spend",
               NoInfo)
    ELSE IF market_order /\ MAX_MARKET_BUY_KRW # Zero
                        /\ RGt(price, MAX_MARKET_BUY_KRW)
    THEN Reply(f, env, "requested KRW exceeds UPBIT_MAX_BUY_KRW", NoInfo)
    ELSE IF ~market_order /\ IsNone(price)
    THEN Reply(f, env, "Limit buy requires 'price'", NoInfo)
    ELSE IF _submit_order(answer).result = "exception"
    THEN Reply(f, env, "error: str(e)", [NoInfo EXCEPT !.posted = TRUE])
    ELSE LiveBuyRecorded(f, env, symbol, amount, price, market_order, pre_bal,
                         post_bal, _submit_order(answer))

\* the end of the live sell, from the balances after the order on
LiveSellRecorded(f, env, symbol, amount, market_order, pre_bal, post_bal, order) ==
    LET env1 == write_config_value(env, "IF_TRADE", TRUE)
        coin == CoinOf(symbol)
        pre_qty == Get(pre_bal, coin, Zero)
        post_qty == Get(post_bal, coin, Zero)
        delta_qty == RSub(pre_qty, post_qty)
        delta_cash == RSub(Get(post_bal, "CASH", Zero), Get(pre_bal, "CASH", Zero))
        prev == LiveReadLastExt(f)
        moved == RGt(delta_qty, Zero) /\ RGt(delta_cash, Zero)
        prev_avg == Get(prev.avg_costs, coin, Zero)
        realized_pnl ==
            IF moved
            THEN RAdd(prev.realized_pnl,
                      RSub(delta_cash, RMul(prev_avg, delta_qty)))
            ELSE prev.realized_pnl
        avg_costs ==
            IF moved
            THEN Put(prev.avg_costs, coin,
                     IF RLe(post_qty, Zero) THEN Zero ELSE prev_avg)
            ELSE prev.avg_costs
        this_action ==
            LiveAction("sell", coin, amount, market_order, None,
                       IF moved THEN delta_cash ELSE None,
                       IF moved THEN delta_qty ELSE None)
        w == _write_position_snapshot(f,
                 IF post_bal # EmptyDict THEN post_bal ELSE pre_bal,
                 this_action, avg_costs, realized_pnl)
    IN  Reply(FileOf(w), env1, order.result,
              [NoInfo EXCEPT !.posted = order.posted])

live_sell(f, env, symbol, amount, price, market_order, pre_bal, post_bal, answer) ==
    IF get_config_value(env, "SIGNATURE") = NoValue
    THEN Raise(f, env, "ValueError: SIGNATURE environment variable is not set")
    ELSE IF ~market_order /\ IsNone(price)
    THEN Reply(f, env, "Limit sell requires 'price'", NoInfo)
    ELSE IF _submit_order(answer).result = "exception"
    THEN Reply(f, env, "error: str(e)", [NoInfo EXCEPT !.posted = TRUE])
    ELSE LiveSellRecorded(f, env, symbol, amount, market_order, pre_bal,
                          post_bal, _submit_order(answer))

MaxLiveLedger == 2

\* what _accounts returns: all in cash, or 100 X bought for 100050 KRW; the
\* empty dict stands for a failed request
AllCash == [k \in {"CASH"} |-> Whole(START_CASH_KRW)]
SomeCoin ==
    [k \in {"CASH", "X"} |->
        IF k = "CASH" THEN Whole(START_CASH_KRW - 100050) ELSE Whole(100)]

\* the balances before and after an order
BalancePairs ==
    {<<EmptyDict, EmptyDict>>, <<AllCash, AllCash>>, <<AllCash, SomeCoin>>,
     <<SomeCoin, AllCash>>, <<SomeCoin, EmptyDict>>}

\* how the exchange answers an order that is sent
Answers == {"accepted", "HTTP error", "exception"}

LiveBuyRequests ==
    {Request(None, None, TRUE), Request(None, Whole(100000), TRUE),
     Request(None, Whole(50000), TRUE),
     Request(Whole(50), None, FALSE), Request(Whole(50), Whole(1200), FALSE)}

LiveSellRequests ==
    {Request(Whole(100), None, TRUE), Request(Whole(50), None, FALSE),
     Request(Whole(50), Whole(1200), FALSE)}

LiveBuy ==
    /\ Len(ledger) < MaxLiveLedger
    /\ \E req \in LiveBuyRequests, answer \in Answers, bal \in BalancePairs :
           Returned("live buy", <<"x">>, req, Zero,
                    live_buy(File, runtimeEnv, <<"x">>, req.amount, req.price,
                             req.market_order, bal[1], bal[2], answer))

LiveSell ==
    /\ Len(ledger) < MaxLiveLedger
    /\ \E req \in LiveSellRequests, answer \in Answers, bal \in BalancePairs :
           Returned("live sell", <<"x">>, req, Zero,
                    live_sell(File, runtimeEnv, <<"x">>, req.amount, req.price,
                              req.market_order, bal[1], bal[2], answer))

\* an account that the paper facade and the live facade are both run on;
\* SIGNATURE comes from the runtime env file main() writes
InitFacades ==
    /\ envPath = TRUE
    /\ osEnv \in {[k \in {"UPBIT_DRY_RUN", "UPBIT_MAX_BUY_KRW"} |->
                      IF k = "UPBIT_DRY_RUN" THEN cfg[1] ELSE cfg[2]] :
                  cfg \in {<<"true", "50000">>, <<"false", "0">>}}
    /\ runtimeEnv = EmptyDict
    /\ fileExists = FALSE
    /\ ledger = << >>
    /\ Quiet
    /\ serialized = TRUE

NextFacades ==
    \/ InitRuntime
    \/ Len(ledger) < MaxLiveLedger /\ Buy
    \/ Len(ledger) < MaxLiveLedger /\ Sell
    \/ LiveBuy
    \/ LiveSell

SpecFacades == InitFacades /\ [][NextFacades]_vars

\* (UPBIT_DRY_RUN, UPBIT_MAX_BUY_KRW) of the process of the live facade
LiveConfigs ==
    {<<"true", "50000">>, <<"FALSE", "50000">>, <<"No", "0">>, <<"yes", "">>,
     <<"0", "abc">>}

\* the live facade alone, under each configuration; an unset variable is
\* one more configuration
InitLive ==
    /\ envPath = TRUE
    /\ osEnv \in {[k \in {"UPBIT_DRY_RUN", "UPBIT_MAX_BUY_KRW"} |->
                      IF k = "UPBIT_DRY_RUN" THEN cfg[1] ELSE cfg[2]] :
                  cfg \in LiveConfigs} \cup {EmptyDict}
    /\ runtimeEnv = [k \in {"SIGNATURE"} |-> "acct"]
    /\ fileExists = FALSE
    /\ ledger = << >>
    /\ Quiet
    /\ serialized = TRUE

NextLive == LiveBuy \/ LiveSell

SpecLive == InitLive /\ [][NextLive]_vars

----------------------------------------------------------------------------
(* An account whose ledger has no records when the first call arrives: the  *)
(* file is missing, or it is there and empty                                *)

InitNoRecords ==
    /\ Deployed
    /\ fileExists \in BOOLEAN
    /\ ledger = << >>
    /\ Quiet
    /\ serialized = TRUE

SpecNoRecords == InitNoRecords /\ [][Next]_vars

----------------------------------------------------------------------------
(* Readers of a ledger file of any content *)

\* _jsonl_rows that keeps the lines json.loads rejects
JsonlRowsUnfiltered(f) == f.lines

\* dashboard: the rows _jsonl_rows returns, every line json.loads accepts
_jsonl_rows(f) ==
    IF ~f.exists THEN << >> ELSE SelectSeq(f.lines, LAMBDA line : line.json)

\* a process calls _read_last_ext on the file as it is
ReadLedger ==
    /\ seen' = [by |-> "_read_last_ext", state |-> _read_last_ext(File),
                rows |-> << >>, file |-> File]
    /\ UNCHANGED <<envPath, osEnv, runtimeEnv, fileExists, ledger, last, calls,
                   serialized, dash>>

\* the dashboard calls _jsonl_rows on the file as it is
ReadRows ==
    /\ seen' = [by |-> "_jsonl_rows", state |-> NoState,
                rows |-> _jsonl_rows(File), file |-> File]
    /\ UNCHANGED <<envPath, osEnv, runtimeEnv, fileExists, ledger, last, calls,
                   serialized, dash>>

MaxLines == 3

\* a record line with the given id and CASH
SampleRecord(id, cash) ==
    Record(id, NoAction, [k \in {"CASH"} |-> Whole(cash)], EmptyDict, Zero)

SampleLines ==
    {SampleRecord(0, 10), SampleRecord(1, 11), SampleRecord(1, 12),
     GarbledLine, NotRecordLine}

FileContents == UNION {[1..n -> SampleLines] : n \in 0..MaxLines}

InitRead ==
    /\ envPath = FALSE
    /\ osEnv = [k \in {"SIGNATURE"} |-> "acct"]
    /\ runtimeEnv = EmptyDict
    /\ fileExists \in BOOLEAN
    /\ ledger \in (IF fileExists THEN FileContents ELSE {<< >>})
    /\ Quiet
    /\ serialized = TRUE

\* a process of the live facade calls its _read_last_ext on the file as it is
ReadLedgerLive ==
    /\ seen' = [by |-> "live _read_last_ext", state |-> LiveReadLastExt(File),
                rows |-> << >>, file |-> File]
    /\ UNCHANGED <<envPath, osEnv, runtimeEnv, fileExists, ledger, last, calls,
                   serialized, dash>>

NextRead == ReadLedger \/ ReadRows \/ ReadLedgerLive

SpecRead == InitRead /\ [][NextRead]_vars

----------------------------------------------------------------------------
(* buy/sell step by step: the steps of a call at which another process can  *)
(* run                                                                      *)

\* the requests of the calls followed step by step
StepRequests(op) ==
    IF op = "buy"
    THEN {Request(None, Whole(100000), TRUE), Request(None, Whole(2000000), TRUE),
          Request(Whole(50), Whole(1200), FALSE)}
    ELSE {Request(Whole(50), None, TRUE), Request(Whole(50), Whole(1200), FALSE)}

InFlight == Cardinality({w \in Writers : calls[w].pc # "idle"})

\* the record a call in progress is about to append
PendingRecord(w) ==
    [calls[w].reply.info.snapshot EXCEPT !.id = NextId(calls[w].last_id)]

\* what the call of process w leaves in last when it returns "filled"
Filled(w) ==
    LET c == calls[w]
    IN  [op |-> c.op, symbol |-> c.symbol, amount |-> c.req.amount,
         price |-> c.req.price, market_order |-> c.req.market_order,
         feed |-> c.feed, result |-> "filled",
         info |-> [c.reply.info EXCEPT !.snapshot = PendingRecord(w)],
         pre |-> c.pre, preEnv |-> c.preEnv, env |-> c.reply.env]

\* buy/sell up to the call of _write_snapshot: SIGNATURE, bootstrap, read of
\* the current state, price, validation, the new positions, IF_TRADE.  A call
\* that fails validation returns here.
BeginCall(w) ==
    /\ calls[w].pc = "idle"
    /\ serialized => InFlight = 0
    /\ Len(ledger) + InFlight < MaxLedger
    /\ \E op \in {"buy", "sell"}, symbol \in Symbols, feed \in FeedPrices :
         \E req \in StepRequests(op) :
           LET r == Handle(op, symbol, req, feed)
           IN  IF r.result = "filled"
               THEN /\ fileExists' = TRUE
                    /\ ledger' = _bootstrap_if_missing(File).lines
                    /\ runtimeEnv' = r.env
                    /\ calls' = [calls EXCEPT ![w] =
                                    [pc |-> "computed", op |-> op,
                                     symbol |-> symbol, req |-> req,
                                     feed |-> feed, reply |-> r, pre |-> File,
                                     preEnv |-> runtimeEnv, last_id |-> -1]]
                    /\ UNCHANGED <<envPath, osEnv, last, seen, serialized, dash>>
               ELSE Returned(op, symbol, req, feed, r)

\* _write_snapshot: _, _, _, last_id = _read_last_ext(signature)
ReadLastId(w) ==
    /\ calls[w].pc = "computed"
    /\ calls' = [calls EXCEPT ![w].pc = "stamped",
                              ![w].last_id = _read_last_ext(File).max_id]
    /\ UNCHANGED <<envPath, osEnv, runtimeEnv, fileExists, ledger, last, seen,
                   serialized, dash>>

\* _write_snapshot: the append of the record, and the return of the call
AppendRecord(w) ==
    /\ calls[w].pc = "stamped"
    /\ ledger' = AppendText(ledger, PendingRecord(w))
    /\ last' = Filled(w)
    /\ calls' = [calls EXCEPT ![w] = IdleCall]
    /\ UNCHANGED <<envPath, osEnv, runtimeEnv, fileExists, seen, serialized, dash>>

\* two processes serving the same account, with or without serialization
InitRace ==
    /\ envPath = FALSE
    /\ osEnv = [k \in {"SIGNATURE"} |-> "acct"]
    /\ runtimeEnv = EmptyDict
    /\ fileExists = FALSE
    /\ ledger = << >>
    /\ Quiet
    /\ serialized \in BOOLEAN

NextRace ==
    \E w \in Writers : BeginCall(w) \/ ReadLastId(w) \/ AppendRecord(w)

SpecRace == InitRace /\ [][NextRace]_vars

----------------------------------------------------------------------------
(* One writer (process 1), its append seen part-way by readers *)

\* the line of a record of which only a part has reached the file: cut
\* inside its JSON text, or (whole) the full text still lacking the newline
PartialLine(record, whole) ==
    [record EXCEPT !.nl = FALSE, !.wf = whole, !.json = whole]

\* _write_snapshot: part of the bytes of f.write(...) is in the file
AppendPartial(w) ==
    /\ calls[w].pc = "stamped"
    /\ \E whole \in BOOLEAN :
           ledger' = AppendText(ledger, PartialLine(PendingRecord(w), whole))
    /\ calls' = [calls EXCEPT ![w].pc = "writing"]
    /\ UNCHANGED <<envPath, osEnv, runtimeEnv, fileExists, last, seen,
                   serialized, dash>>

\* _write_snapshot: the rest of the bytes, and the return of the call
AppendRest(w) ==
    /\ calls[w].pc = "writing"
    /\ ledger' = [ledger EXCEPT ![Len(ledger)] = PendingRecord(w)]
    /\ last' = Filled(w)
    /\ calls' = [calls EXCEPT ![w] = IdleCall]
    /\ UNCHANGED <<envPath, osEnv, runtimeEnv, fileExists, seen, serialized, dash>>

InitMidAppend ==
    /\ envPath = FALSE
    /\ osEnv = [k \in {"SIGNATURE"} |-> "acct"]
    /\ runtimeEnv = EmptyDict
    /\ fileExists = FALSE
    /\ ledger = << >>
    /\ Quiet
    /\ serialized = TRUE

NextMidAppend ==
    \/ \E w \in {1} :
           \/ BeginCall(w)
           \/ ReadLastId(w)
           \/ AppendRecord(w)
           \/ AppendPartial(w)
           \/ AppendRest(w)
    \/ InFlight = 0 /\ GetBalance
    \/ ReadLedger
    \/ ReadRows

SpecMidAppend == InitMidAppend /\ [][NextMidAppend]_vars

----------------------------------------------------------------------------
(* One writer whose process can die in the middle of f.write(...) *)

\* the process dies with a part of the record in the file: the call never
\* returns, the bytes written stay
Crash(w) ==
    /\ calls[w].pc = "writing"
    /\ last' = [Filled(w) EXCEPT !.result = "interrupted"]
    /\ calls' = [calls EXCEPT ![w] = IdleCall]
    /\ UNCHANGED <<envPath, osEnv, runtimeEnv, fileExists, ledger, seen,
                   serialized, dash>>

NextCrash ==
    \/ \E w \in {1} :
           \/ BeginCall(w)
           \/ ReadLastId(w)
           \/ AppendRecord(w)
           \/ AppendPartial(w)
           \/ Crash(w)
    \/ ReadLedger

SpecCrash == InitMidAppend /\ [][NextCrash]_vars

----------------------------------------------------------------------------
(* Dashboard read model (dashboard/data_access.py) and its routes          *)
(* (dashboard/app.py).  A call runs at one instant dash.now; mem is the     *)
(* memory of the process, [cache |-> _CACHE, price_cache |-> _price_cache]; *)
(* a function yields [mem, value, raised, miss].                            *)

\* API_CACHE_TTL, in seconds
CACHE_TTL == 5

\* the ttl of the holdings entry
HOLDINGS_TTL == 3

Done(mem, value) ==
    [mem |-> mem, value |-> value, raised |-> FALSE, miss |-> TRUE,
     expired |-> FALSE]

\* an exception leaves the function
Raised(mem, exception) ==
    [mem |-> mem, value |-> exception, raised |-> TRUE, miss |-> TRUE,
     expired |-> FALSE]

\* _cached(key, loader, ttl) at time now; loaded is what loader() gives when
\* it is run from mem.  miss: the loader was run; expired: it was run because
\* the entry of key was ttl old or older
_cached(mem, key, now, ttl, loaded) ==
    IF key \in DOMAIN mem.cache /\ now - mem.cache[key].at < ttl
    THEN [Done(mem, mem.cache[key].value) EXCEPT !.miss = FALSE]
    ELSE IF loaded.raised THEN loaded
    ELSE [Done([loaded.mem EXCEPT !.cache =
                    Put(loaded.mem.cache, key,
                        [at |-> now, value |-> loaded.value])],
               loaded.value)
              EXCEPT !.expired = key \in DOMAIN mem.cache]

\* LastRows that counts from the front: rows[:n]
FirstRows(rows, n) ==
    IF n >= Len(rows) THEN rows ELSE SubSeq(rows, 1, n)

\* rows[-n:]
LastRows(rows, n) ==
    IF n >= Len(rows) THEN rows ELSE SubSeq(rows, Len(rows) - n + 1, Len(rows))

get_positions(mem, now, f, limit) ==
    LET c == _cached(mem, "positions:acct", now, CACHE_TTL, Done(mem, _jsonl_rows(f)))
    IN  IF limit.some /\ limit.n > 0
        THEN [c EXCEPT !.value = LastRows(c.value, limit.n)]
        ELSE c

\* the value of latest_position: a row, or None
NoRow == [found |-> FALSE, row |-> NoSnapshot]

\* _load_watchlist_symbols: the symbols of WATCHLIST_SYMBOLS; the watchlist
\* file is taken to be absent
_load_watchlist_symbols ==
    IF Get(osEnv, "WATCHLIST_SYMBOLS", "") = "" THEN << >>
    ELSE <<Get(osEnv, "WATCHLIST_SYMBOLS", "")>>

\* if watchlist: latest["watchlist"] = watchlist
WithWatchlist(row, watchlist) ==
    IF watchlist = << >> THEN row ELSE [watchlist |-> watchlist] @@ row

\* rows[-limit:].copy() is a new list of the same dicts: the dict that
\* latest_position writes to is the last row of the list held in _CACHE
latest_position(mem, now, f) ==
    LET c == get_positions(mem, now, f, Limit(1))
        rows == c.mem.cache["positions:acct"].value
        latest == WithWatchlist(c.value[Len(c.value)], _load_watchlist_symbols)
    IN  IF Len(c.value) > 0
        THEN [c EXCEPT !.value = [found |-> TRUE, row |-> latest],
                       !.mem.cache["positions:acct"].value =
                           [rows EXCEPT ![Len(rows)] = latest]]
        ELSE [c EXCEPT !.value = NoRow]

\* summary(): the latest cash of the account
summary(mem, now, f) ==
    LET l == latest_position(mem, now, f)
    IN  [l EXCEPT !.value =
             [signature |-> "acct",
              latest_cash |-> IF l.value.found
                              THEN Get(l.value.row.positions, "CASH", None)
                              ELSE None]]

\* row.get("date"): the snapshots of the sample ledgers were all written on
\* one day
DateOf(row) == "2025-01-01"

\* what the exchange has as the daily close, and as the live price, of a coin
ClosePrice(symbol) == IF symbol = "X" THEN Whole(100) ELSE Whole(10)

LivePrice(symbol) == IF symbol = "X" THEN Whole(120) ELSE Whole(12)

\* _get_daily_close(symbol, date); feed_up: the candle request is answered
\* with status 200 and a candle
_get_daily_close(mem, symbol, date, feed_up) ==
    LET key == <<symbol, date>>
    IN  IF key \in DOMAIN mem.price_cache
        THEN Done(mem, mem.price_cache[key])
        ELSE LET close_px == IF feed_up THEN ClosePrice(symbol) ELSE Zero
             IN  Done([mem EXCEPT !.price_cache = Put(mem.price_cache, key, close_px)],
                      close_px)

\* portfolio_timeseries: the inner loop over positions.items(), from equity
\* on, over the symbols S still to come
RECURSIVE EquityLoop(_, _, _, _, _)
EquityLoop(mem, row, S, equity, feed_up) ==
    IF S = {} THEN Done(mem, equity)
    ELSE LET sym == CHOOSE x \in S : TRUE
             qty_val == row.positions[sym]
         IN  IF sym = "CASH" \/ RLe(qty_val, Zero)
             THEN EquityLoop(mem, row, S \ {sym}, equity, feed_up)
             ELSE LET px == _get_daily_close(mem, sym, DateOf(row), feed_up)
                  IN  EquityLoop(px.mem, row, S \ {sym},
                                 RAdd(equity, RMul(qty_val, px.value)), feed_up)

\* the local variables of portfolio_timeseries._loader that the rows loop
\* assigns; bound: no row has assigned them yet
NoLocals == [bound |-> FALSE, row |-> NoSnapshot, cash |-> Zero, equity |-> Zero]

\* portfolio_timeseries: the loop "for row in rows", from row i on
RECURSIVE RowsLoop(_, _, _, _, _)
RowsLoop(mem, rows, i, locals, feed_up) ==
    IF i > Len(rows) THEN Done(mem, locals)
    ELSE LET row == rows[i]
             cash == Get(row.positions, "CASH", Zero)
             e == EquityLoop(mem, row, DOMAIN row.positions, cash, feed_up)
         IN  RowsLoop(e.mem, rows, i + 1,
                      [bound |-> TRUE, row |-> row, cash |-> cash,
                       equity |-> e.value], feed_up)

\* an entry of the series
SeriesEntry(locals) ==
    [date |-> DateOf(locals.row), equity |-> locals.equity, cash |-> locals.cash,
     realized_pnl |-> locals.row.realized_pnl]

\* portfolio_timeseries._loader: series.append(...) comes after the rows
\* loop, and reads the variables the last row left
PortfolioLoader(mem, now, f, limit, feed_up) ==
    LET p == get_positions(mem, now, f, limit)
        l == RowsLoop(p.mem, p.value, 1, NoLocals, feed_up)
    IN  IF ~l.value.bound
        THEN Raised(l.mem, "UnboundLocalError")
        ELSE Done(l.mem, <<SeriesEntry(l.value)>>)

\* f"portfolio:{signature}:{limit}"
PortfolioKey(limit) ==
    IF ~limit.some THEN "portfolio:acct:None"
    ELSE IF limit.n = 1 THEN "portfolio:acct:1"
    ELSE "portfolio:acct:2"

portfolio_timeseries(mem, now, f, limit, feed_up) ==
    _cached(mem, PortfolioKey(limit), now, CACHE_TTL,
            PortfolioLoader(mem, now, f, limit, feed_up))

\* _ticker_batch that takes the prices of an answer whatever its status
TickerBatchUnchecked(symbols, status, listed) ==
    [sym \in symbols \cap listed |-> LivePrice(sym)]

\* _ticker_batch(symbols): one batch; status, listed: the HTTP status of the
\* answer and the coins whose markets are in it
_ticker_batch(symbols, status, listed) ==
    IF symbols = {} \/ status # 200 THEN EmptyDict
    ELSE LET markets == {_normalize_market(<<sym>>) : sym \in symbols}
             data == {[market |-> m, trade_price |-> LivePrice(m[2])] :
                          m \in {x \in markets : x[2] \in listed}}
         IN  [sym \in {item.market[2] : item \in data} |-> LivePrice(sym)]

NoHoldings ==
    [holdings |-> {}, positions |-> EmptyDict, avg_costs |-> EmptyDict,
     realized_pnl |-> Zero]

HoldingsLoader(mem, now, f, status, listed) ==
    LET l == latest_position(mem, now, f)
        latest == l.value.row
        coins == {sym \in DOMAIN latest.positions :
                      sym # "CASH" /\ RGt(latest.positions[sym], Zero)}
        tickers == _ticker_batch(coins, status, listed)
    IN  IF ~l.value.found
        THEN Done(l.mem, NoHoldings)
        ELSE Done(l.mem,
                  [holdings |->
                       {[symbol |-> sym, quantity |-> latest.positions[sym],
                         avg_cost |-> Get(latest.avg_costs, sym, Zero),
                         last_price |-> Get(tickers, sym, Zero),
                         value |-> RMul(latest.positions[sym],
                                        Get(tickers, sym, Zero))] : sym \in coins},
                   positions |-> latest.positions,
                   avg_costs |-> latest.avg_costs,
                   realized_pnl |-> latest.realized_pnl])

holdings_with_prices(mem, now, f, status, listed) ==
    _cached(mem, "holdings:acct", now, HOLDINGS_TTL,
            HoldingsLoader(mem, now, f, status, listed))

\* the entry get_trade_actions makes of a buy or sell row
TradeAction(row) ==
    LET action == row.this_action
    IN  [id |-> row.id, action |-> action.action, symbol |-> action.symbol,
         amount |-> action.amount, fill_price |-> action.fill_price,
         krw_delta |-> IF action.gross = Zero THEN None
                       ELSE IF action.action = "buy"
                       THEN RSub(Zero, Rat(Abs(action.gross.n), action.gross.d))
                       ELSE Rat(Abs(action.gross.n), action.gross.d)]

get_trade_actions(mem, now, f, limit) ==
    LET p == get_positions(mem, now, f, NoLimit)
        trades == SelectSeq(p.value,
                      LAMBDA row : row.this_action.action \in {"buy", "sell"})
        actions == [i \in 1..Len(trades) |-> TradeAction(trades[i])]
    IN  [p EXCEPT !.value = IF limit.some /\ limit.n > 0
                            THEN LastRows(actions, limit.n)
                            ELSE actions]

\* app.py: the response of a route to what the data function gave; an
\* exception that leaves the handler is answered with status 500
RouteResponse(r, empty) ==
    IF r.raised THEN "500 Internal Server Error"
    ELSE IF empty THEN "404 Not Found"
    ELSE "200 OK"

MaxClock == 6

MaxDashLines == 3

Mem == [cache |-> dash.cache, price_cache |-> dash.price_cache]

\* the call is made CACHE_TTL or more after the most recent timed append
Late == dash.written >= 0 /\ dash.now - dash.written >= CACHE_TTL

\* a dashboard call returns r (or raises): the memory of the process after
\* it, and the record of the call
ServedWith(op, limit, r, response, answer) ==
    /\ dash' = [dash EXCEPT !.cache = r.mem.cache,
                            !.price_cache = r.mem.price_cache,
                            !.out = [op |-> op, limit |-> limit,
                                     raised |-> r.raised, value |-> r.value,
                                     response |-> response, file |-> File,
                                     miss |-> r.miss, expired |-> r.expired,
                                     answer |-> answer, late |-> Late]]
    /\ UNCHANGED <<envPath, osEnv, runtimeEnv, fileExists, ledger, last, seen,
                   calls, serialized>>

Served(op, limit, r, response) == ServedWith(op, limit, r, response, NoAnswer)

Limits == {NoLimit, Limit(1), Limit(2)}

\* get_positions, and for a limit >= 1 the route /api/positions/{signature}
GetPositions ==
    \E limit \in Limits :
        LET r == get_positions(Mem, dash.now, File, limit)
        IN  Served("get_positions", limit, r,
                   IF limit.some THEN RouteResponse(r, r.value = << >>)
                   ELSE "none")

\* /api/positions/{signature}/latest
LatestPosition ==
    LET r == latest_position(Mem, dash.now, File)
    IN  Served("latest_position", NoLimit, r, RouteResponse(r, ~r.value.found))

\* /api/portfolio/{signature}
PortfolioTimeseries ==
    \E limit \in {NoLimit, Limit(2)} :
        LET r == portfolio_timeseries(Mem, dash.now, File, limit, dash.feed_up)
        IN  ServedWith("portfolio_timeseries", limit, r,
                       RouteResponse(r, ~r.raised /\ r.value = << >>),
                       [status |-> IF dash.feed_up THEN 200 ELSE 500,
                        listed |-> {}])

DashCoins == {"X", "Y"}

\* the answers of the ticker endpoint: every market, one market missing, an
\* error status
TickerAnswers ==
    {[status |-> 200, listed |-> DashCoins], [status |-> 200, listed |-> {"X"}],
     [status |-> 500, listed |-> DashCoins]}

\* /api/holdings/{signature}
HoldingsWithPrices ==
    \E answer \in TickerAnswers :
        LET r == holdings_with_prices(Mem, dash.now, File, answer.status,
                                      answer.listed)
        IN  ServedWith("holdings_with_prices", NoLimit, r, RouteResponse(r, FALSE),
                       answer)

GetTradeActions ==
    \E limit \in {NoLimit, Limit(1)} :
        Served("get_trade_actions", limit,
               get_trade_actions(Mem, dash.now, File, limit), "none")

\* time.time() moves on
Tick ==
    /\ dash.now < MaxClock
    /\ dash' = [dash EXCEPT !.now = dash.now + 1]
    /\ UNCHANGED <<envPath, osEnv, runtimeEnv, fileExists, ledger, last, seen,
                   calls, serialized>>

\* the candle endpoint of the exchange goes down, or comes back
FeedChange ==
    /\ dash' = [dash EXCEPT !.feed_up = ~dash.feed_up]
    /\ UNCHANGED <<envPath, osEnv, runtimeEnv, fileExists, ledger, last, seen,
                   calls, serialized>>

\* the trades of the agent process while the dashboard runs
DashTrades ==
    {[op |-> "buy", symbol |-> <<"x">>, req |-> Request(Whole(50), Whole(1200), FALSE)],
     [op |-> "buy", symbol |-> <<"KRW", "Y">>, req |-> Request(None, Whole(100000), TRUE)],
     [op |-> "sell", symbol |-> <<"x">>, req |-> Request(Whole(50), Whole(1300), FALSE)]}

\* the agent process trades: a filled paper buy or sell
Trade ==
    /\ Len(ledger) < MaxDashLines
    /\ \E t \in DashTrades :
           LET r == Handle(t.op, t.symbol, t.req, Whole(1000))
           IN  /\ r.result = "filled"
               /\ Returned(t.op, t.symbol, t.req, Whole(1000), r)

\* an account with no ledger file, with an empty one, or with one that holds
\* the cut-off line of an interrupted first write
InitDashboard ==
    /\ envPath = FALSE
    /\ osEnv = [k \in {"SIGNATURE"} |-> "acct"]
    /\ runtimeEnv = EmptyDict
    /\ fileExists \in BOOLEAN
    /\ ledger \in (IF fileExists THEN {<< >>, <<GarbledLine>>} ELSE {<< >>})
    /\ Quiet
    /\ serialized = TRUE

\* main(): the last line of the file that json.loads accepts, if it is an
\* object
MainLatest(f) ==
    LET rows == IF ~f.exists THEN << >>
                ELSE SelectSeq(f.lines, LAMBDA line : line.json)
    IN  IF Len(rows) = 0 \/ ~rows[Len(rows)].wf
        THEN NoState
        ELSE [positions |-> rows[Len(rows)].positions,
              avg_costs |-> rows[Len(rows)].avg_costs,
              realized_pnl |-> rows[Len(rows)].realized_pnl, max_id |-> -1]

\* the agent loop reads the latest position record of the account
ReadMain ==
    /\ seen' = [by |-> "main", state |-> MainLatest(File), rows |-> << >>,
                file |-> File]
    /\ UNCHANGED <<envPath, osEnv, runtimeEnv, fileExists, ledger, last, calls,
                   serialized, dash>>

\* the agent process trades, and the time of the append is kept
TimedTrade ==
    /\ Len(ledger) < MaxDashLines
    /\ \E t \in DashTrades :
           LET r == Handle(t.op, t.symbol, t.req, Whole(1000))
           IN  /\ r.result = "filled"
               /\ fileExists' = r.file.exists
               /\ ledger' = r.file.lines
               /\ runtimeEnv' = r.env
               /\ last' = [op |-> t.op, symbol |-> t.symbol,
                           amount |-> t.req.amount, price |-> t.req.price,
                           market_order |-> t.req.market_order,
                           feed |-> Whole(1000), result |-> r.result,
                           info |-> r.info, pre |-> File,
                           preEnv |-> runtimeEnv, env |-> r.env]
               /\ dash' = [dash EXCEPT !.written = dash.now]
               /\ UNCHANGED <<envPath, osEnv, seen, calls, serialized>>

\* get_positions(signature)
PositionsAll ==
    Served("get_positions", NoLimit,
           get_positions(Mem, dash.now, File, NoLimit), "none")

\* /api/portfolio/{signature} without a limit
PortfolioAll ==
    LET r == portfolio_timeseries(Mem, dash.now, File, NoLimit, dash.feed_up)
    IN  ServedWith("portfolio_timeseries", NoLimit, r,
                   RouteResponse(r, ~r.raised /\ r.value = << >>),
                   [status |-> 200, listed |-> {}])

\* /api/holdings/{signature}, the ticker endpoint answering for every market
HoldingsListed ==
    LET r == holdings_with_prices(Mem, dash.now, File, 200, DashCoins)
    IN  ServedWith("holdings_with_prices", NoLimit, r, RouteResponse(r, FALSE),
                   [status |-> 200, listed |-> DashCoins])

\* an account with no ledger file when the dashboard starts
InitStale ==
    /\ envPath = FALSE
    /\ osEnv = [k \in {"SIGNATURE"} |-> "acct"]
    /\ runtimeEnv = EmptyDict
    /\ fileExists = FALSE
    /\ ledger = << >>
    /\ Quiet
    /\ serialized = TRUE

\* the three cached projections, while the agent trades
NextStale ==
    \/ PositionsAll
    \/ PortfolioAll
    \/ HoldingsListed
    \/ Tick
    \/ TimedTrade

SpecStale == InitStale /\ [][NextStale]_vars

\* /api/summary
Summary == Served("summary", NoLimit, summary(Mem, dash.now, File), "200 OK")

\* the dashboard of a deployment that may have a watchlist configured
InitWatchlist ==
    /\ envPath = FALSE
    /\ osEnv \in {[k \in {"SIGNATURE"} |-> "acct"],
                  [k \in {"SIGNATURE", "WATCHLIST_SYMBOLS"} |->
                       IF k = "SIGNATURE" THEN "acct" ELSE "KRW-BTC"]}
    /\ runtimeEnv = EmptyDict
    /\ fileExists = FALSE
    /\ ledger = << >>
    /\ Quiet
    /\ serialized = TRUE

\* the projections of the positions, while the agent trades
NextWatchlist ==
    \/ GetPositions
    \/ LatestPosition
    \/ HoldingsWithPrices
    \/ Summary
    \/ Tick
    \/ Trade

SpecWatchlist == InitWatchlist /\ [][NextWatchlist]_vars

\* the positions reads, while the agent trades
NextPositions == GetPositions \/ LatestPosition \/ Tick \/ Trade \/ ReadMain

SpecPositions == InitDashboard /\ [][NextPositions]_vars

\* the equity series, while the agent trades and the candle feed comes and
\* goes
NextPortfolio == PortfolioTimeseries \/ Tick \/ FeedChange \/ Trade

SpecPortfolio == InitDashboard /\ [][NextPortfolio]_vars

\* the holdings view, while the agent trades
NextHoldings == HoldingsWithPrices \/ Tick \/ Trade

SpecHoldings == InitDashboard /\ [][NextHoldings]_vars

\* every projection, on an account that never gets a snapshot
NextNoData ==
    \/ GetPositions
    \/ LatestPosition
    \/ PortfolioTimeseries
    \/ HoldingsWithPrices
    \/ GetTradeActions
    \/ Tick

SpecNoData == InitDashboard /\ [][NextNoData]_vars

----------------------------------------------------------------------------
(* Vocabulary of the properties *)

\* the most recent call was a buy/sell that got past its SIGNATURE check
Traded(op) ==
    /\ last.op = op
    /\ _get_config_value(last.preEnv, "SIGNATURE") # NoValue

\* the current state the most recent call read, after its lazy bootstrap
Before == _read_last_ext(_bootstrap_if_missing(last.pre))

\* the current state now
Current == _read_last_ext(File)

\* the record the most recent call appended, when it returned "filled"
Snapshot == ledger[Len(ledger)]

Qty(positions, coin) == Get(positions, coin, Zero)

\* the ledger holds no trade snapshot that the state before the call lacked
NoTradeAppended ==
    IF last.pre.exists
    THEN fileExists /\ ledger = last.pre.lines
    ELSE fileExists /\ Len(ledger) = 1 /\ ledger[1].this_action.action = "init"

\* IF_TRADE is true in the runtime env file env
IfTrade(env) == Get(env, "IF_TRADE", FALSE)

----------------------------------------------------------------------------
(* C1: under a single writer, the ids of the ledger records in file order   *)
(* are exactly 0, 1, ..., N-1 after N appends: no gap and no repeat.         *)

C1_MonotonicIds ==
    \A i \in 1..Len(ledger) : ledger[i].wf /\ ledger[i].id = i - 1

\* three appends have happened: init and two trades
C1_Witness ==
    /\ Len(ledger) = 3
    /\ last.result = "filled"
    /\ Snapshot.id = 2

----------------------------------------------------------------------------
(* C2: in every committed snapshot every entry of positions, CASH and coins *)
(* alike, is >= 0, whatever amounts and prices the requests carry.          *)

C2_NonNegativePositions ==
    \A i \in 1..Len(ledger) :
        \A k \in DOMAIN ledger[i].positions : RGe(ledger[i].positions[k], Zero)

----------------------------------------------------------------------------
(* C3: a buy that has its fill price and its arguments, and whose total     *)
(* cost (gross cost + gross cost * fee rate) exceeds the current CASH,      *)
(* returns 'Insufficient cash' and appends no trade snapshot: the current   *)
(* state read after the call (positions, avg_costs, realized_pnl, maximum   *)
(* id) is the one the call read.                                            *)

\* gross cost of the request of the most recent buy
RequestedGross ==
    IF last.market_order THEN last.price ELSE RMul(last.amount, last.price)

\* the most recent call is a buy that reached the accounting step
BuyIntent ==
    /\ Traded("buy")
    /\ RGt(last.feed, Zero)
    /\ ~IsNone(last.price)
    /\ last.market_order \/ ~IsNone(last.amount)

----------------------------------------------------------------------------
(* C4: a sell whose quantity exceeds the current holding of the symbol      *)
(* returns 'Insufficient position' and appends no trade snapshot: the       *)
(* current state read after the call is the one the call read.              *)

----------------------------------------------------------------------------
(* C5: for every buy/sell call, the first call on an account without a      *)
(* ledger included, a success appends exactly one snapshot and sets         *)
(* IF_TRADE to true, and a validation error appends nothing and leaves the  *)
(* flag as it was.                                                          *)

C5_OneSnapshotPerCall ==
    last.op \in {"buy", "sell"} =>
        IF last.result = "filled"
        THEN /\ Len(ledger) = Len(last.pre.lines) + 1
             /\ IfTrade(last.env)
        ELSE /\ fileExists = last.pre.exists
             /\ ledger = last.pre.lines
             /\ last.env = last.preEnv

(* C5 as the code has it: on an account whose ledger file exists a success  *)
(* appends exactly one snapshot and a validation error appends nothing; the *)
(* first call on an account with no ledger file first appends the init      *)
(* snapshot, so a success appends two records and a validation error other  *)
(* than a missing SIGNATURE appends the init record. A success sets         *)
(* IF_TRADE to true when a runtime env file is configured; an error leaves  *)
(* the runtime env untouched.                                               *)

C5_OneSnapshotAfterBootstrap ==
    last.op \in {"buy", "sell"} =>
        IF last.result = "filled"
        THEN /\ IF last.pre.exists
                THEN /\ Len(ledger) = Len(last.pre.lines) + 1
                     /\ SubSeq(ledger, 1, Len(last.pre.lines)) = last.pre.lines
                ELSE /\ Len(ledger) = 2
                     /\ ledger[1].this_action.action = "init"
             /\ Snapshot.this_action.action = last.op
             /\ envPath => IfTrade(last.env)
             /\ ~envPath => last.env = last.preEnv
        ELSE /\ last.env = last.preEnv
             /\ IF last.result = "SIGNATURE is not set"
                THEN fileExists = last.pre.exists /\ ledger = last.pre.lines
                ELSE NoTradeAppended

\* the first call on an account without a ledger was rejected and left the
\* init record behind
C5_Witness ==
    /\ last.op = "buy"
    /\ ~last.pre.exists
    /\ last.result = "Insufficient cash"
    /\ Len(ledger) = 1
    /\ ledger[1].this_action.action = "init"

----------------------------------------------------------------------------
(* C6: a successful market buy spending A at fill price P with fee rate r   *)
(* leaves CASH = previous CASH - (A + A*r) and positions[coin] = previous   *)
(* quantity + A/P; a successful limit buy of q at limit price L leaves      *)
(* CASH = previous CASH - (q*L + q*L*r) and positions[coin] = previous      *)
(* quantity + q, with L recorded as the fill price.                         *)

C6_BuyArithmetic ==
    (Traded("buy") /\ last.result = "filled") =>
        LET coin == CoinOf(last.symbol)
            prevCash == Qty(Before.positions, "CASH")
            prevQty == Qty(Before.positions, coin)
        IN  IF last.market_order
            THEN LET A == last.price
                     P == last.feed
                 IN  /\ Snapshot.positions["CASH"]
                          = RSub(prevCash, RAdd(A, RMul(A, FEE_RATE)))
                     /\ Snapshot.positions[coin] = RAdd(prevQty, RDiv(A, P))
                     /\ Snapshot.this_action.fill_price = P
            ELSE LET q == last.amount
                     L == last.price
                     qL == RMul(q, L)
                 IN  /\ Snapshot.positions["CASH"]
                          = RSub(prevCash, RAdd(qL, RMul(qL, FEE_RATE)))
                     /\ Snapshot.positions[coin] = RAdd(prevQty, q)
                     /\ Snapshot.this_action.fill_price = L

\* Scenario A: CASH 1,000,000, 100,000 spent at 1,000: quantity 100, fee 50,
\* CASH 899,950
C6_Witness ==
    /\ Traded("buy") /\ last.result = "filled" /\ last.market_order
    /\ Qty(Before.positions, "CASH") = Whole(1000000)
    /\ last.price = Whole(100000) /\ last.feed = Whole(1000)
    /\ Snapshot.this_action.amount = Whole(100)
    /\ Snapshot.this_action.fee = Whole(50)
    /\ Snapshot.positions["CASH"] = Whole(899950)
    /\ Snapshot.positions[CoinOf(last.symbol)] = Whole(100)

----------------------------------------------------------------------------
(* C7: a successful sell of q at fill price P with fee rate r leaves        *)
(* positions[coin] = previous quantity - q, CASH = previous CASH + q*P -    *)
(* q*P*r and realized_pnl = previous realized_pnl + (P - previous           *)
(* avg_costs[coin]) * q: the fee is not taken out of the realized PnL.      *)

C7_SellArithmetic ==
    (Traded("sell") /\ last.result = "filled") =>
        LET coin == CoinOf(last.symbol)
            q == last.amount
            P == IF last.market_order THEN last.feed ELSE last.price
            qP == RMul(q, P)
        IN  /\ Snapshot.positions[coin] = RSub(Qty(Before.positions, coin), q)
            /\ Snapshot.positions["CASH"]
                 = RSub(RAdd(Qty(Before.positions, "CASH"), qP),
                        RMul(qP, FEE_RATE))
            /\ Snapshot.realized_pnl
                 = RAdd(Before.realized_pnl,
                        RMul(RSub(P, Qty(Before.avg_costs, coin)), q))

\* Scenario B: from CASH 899,950 with 100 held at average cost 1,000, 50 sold
\* at 1,200: CASH 959,920, 50 left, realized PnL up by 10,000
C7_Witness ==
    /\ Traded("sell") /\ last.result = "filled"
    /\ Qty(Before.positions, "CASH") = Whole(899950)
    /\ Qty(Before.positions, CoinOf(last.symbol)) = Whole(100)
    /\ Qty(Before.avg_costs, CoinOf(last.symbol)) = Whole(1000)
    /\ last.amount = Whole(50) /\ last.price = Whole(1200)
    /\ Snapshot.positions["CASH"] = Whole(959920)
    /\ Snapshot.positions[CoinOf(last.symbol)] = Whole(50)
    /\ Snapshot.realized_pnl = RAdd(Before.realized_pnl, Whole(10000))

----------------------------------------------------------------------------
(* C8: after a buy that leaves a positive quantity, the new average cost is *)
(* (old average * old quantity + fill price * bought quantity) / new        *)
(* quantity; two buys in a row of the same symbol from no holding, q1 > 0   *)
(* at p1 and then q2 > 0 at p2, leave avg_costs[symbol] =                   *)
(* (q1*p1 + q2*p2) / (q1 + q2).                                             *)

\* records i and i+1 are buys of coin, made from no holding of it
TwoBuysFromNothing(i, coin) ==
    /\ i > 1 /\ i + 1 <= Len(ledger)
    /\ Qty(ledger[i - 1].positions, coin) = Zero
    /\ \A j \in {i, i + 1} :
         /\ ledger[j].this_action.action = "buy"
         /\ ledger[j].this_action.symbol = coin
         /\ RGt(ledger[j].this_action.amount, Zero)

WeightedMean(q1, p1, q2, p2) ==
    RDiv(RAdd(RMul(q1, p1), RMul(q2, p2)), RAdd(q1, q2))

C8_WeightedAverageCost ==
    /\ (/\ Traded("buy") /\ last.result = "filled"
        /\ RGt(Snapshot.positions[CoinOf(last.symbol)], Zero))
       => LET coin == CoinOf(last.symbol)
              fill == IF last.market_order THEN last.feed ELSE last.price
              bought == IF last.market_order
                        THEN RDiv(last.price, last.feed) ELSE last.amount
          IN  Snapshot.avg_costs[coin]
                = RDiv(RAdd(RMul(Qty(Before.avg_costs, coin),
                                 Qty(Before.positions, coin)),
                            RMul(fill, bought)),
                       Snapshot.positions[coin])
    /\ \A i \in 1..Len(ledger) : \A coin \in Coins :
         TwoBuysFromNothing(i, coin)
         => ledger[i + 1].avg_costs[coin]
              = WeightedMean(ledger[i].this_action.amount,
                             ledger[i].this_action.fill_price,
                             ledger[i + 1].this_action.amount,
                             ledger[i + 1].this_action.fill_price)

\* 100 bought at 1,000 and then 50 at 1,200: average cost 3200/3
C8_Witness ==
    /\ Traded("buy") /\ last.result = "filled"
    /\ TwoBuysFromNothing(Len(ledger) - 1, CoinOf(last.symbol))
    /\ ledger[Len(ledger) - 1].this_action.fill_price = Whole(1000)
    /\ ledger[Len(ledger) - 1].this_action.amount = Whole(100)
    /\ Snapshot.this_action.fill_price = Whole(1200)
    /\ Snapshot.this_action.amount = Whole(50)
    /\ Snapshot.avg_costs[CoinOf(last.symbol)] = Rat(3200, 3)

----------------------------------------------------------------------------
(* C9: after a successful sell, avg_costs of the sold symbol is 0 when the  *)
(* remaining quantity is <= 0 and is what it was before the sell when a     *)
(* positive quantity remains.                                               *)

C9_AvgCostAfterSell ==
    (Traded("sell") /\ last.result = "filled") =>
        LET coin == CoinOf(last.symbol)
        IN  IF RLe(Snapshot.positions[coin], Zero)
            THEN coin \in DOMAIN Snapshot.avg_costs
                 /\ Snapshot.avg_costs[coin] = Zero
            ELSE IF coin \in DOMAIN Before.avg_costs
                 THEN coin \in DOMAIN Snapshot.avg_costs
                      /\ Snapshot.avg_costs[coin] = Before.avg_costs[coin]
                 ELSE coin \notin DOMAIN Snapshot.avg_costs

\* a position with a non-zero average cost was sold down to zero
C9_Witness ==
    /\ Traded("sell") /\ last.result = "filled"
    /\ RGt(Qty(Before.positions, CoinOf(last.symbol)), Zero)
    /\ Qty(Before.avg_costs, CoinOf(last.symbol)) # Zero
    /\ Snapshot.positions[CoinOf(last.symbol)] = Zero
    /\ Snapshot.avg_costs[CoinOf(last.symbol)] = Zero

----------------------------------------------------------------------------
(* C10: in every committed snapshot, a non-CASH symbol whose position is 0  *)
(* or absent has avg_costs absent or 0.                                     *)

C10_AvgCostOnlyWhileHeld ==
    \A i \in 1..Len(ledger) : \A coin \in Coins :
        Qty(ledger[i].positions, coin) = Zero
        => Qty(ledger[i].avg_costs, coin) = Zero

----------------------------------------------------------------------------
(* C11: for every buy or sell snapshot and the snapshot it was computed     *)
(* from, (CASH after - CASH before) + (coin quantity after - coin quantity  *)
(* before) * recorded fill_price = - recorded fee.                          *)

\* record i is a trade snapshot
IsTrade(i) == ledger[i].this_action.action \in {"buy", "sell"}

\* what the trade of record i added to CASH plus to the traded coin, the
\* coin valued at the recorded fill price
TradeValueChange(i) ==
    LET act == ledger[i].this_action
        after == ledger[i].positions
        before == ledger[i - 1].positions
    IN  RAdd(RSub(Qty(after, "CASH"), Qty(before, "CASH")),
             RMul(RSub(Qty(after, act.symbol), Qty(before, act.symbol)),
                  act.fill_price))

C11_TradeConservesValue ==
    \A i \in 2..Len(ledger) :
        IsTrade(i) => TradeValueChange(i) = RSub(Zero, ledger[i].this_action.fee)

\* a buy and then a sell, each with a fee > 0, are in the ledger
C11_Witness ==
    /\ Len(ledger) = 3
    /\ ledger[2].this_action.action = "buy"
    /\ ledger[3].this_action.action = "sell"
    /\ RGt(ledger[2].this_action.fee, Zero)
    /\ RGt(ledger[3].this_action.fee, Zero)

----------------------------------------------------------------------------
(* C12: for any sequence of valid buys and sells from the init snapshot,    *)
(* with arbitrary positive fill prices, the equity reconstructed from the   *)
(* ledger, CASH + sum of quantity * fill price of the last trade in that    *)
(* symbol, never exceeds the initial cash minus the fees paid.              *)

\* record i is a trade with a positive quantity at a positive fill price
ValidTrade(i) ==
    /\ IsTrade(i)
    /\ RGt(ledger[i].this_action.amount, Zero)
    /\ RGt(ledger[i].this_action.fill_price, Zero)

OnlyValidTrades ==
    /\ Len(ledger) >= 1
    /\ ledger[1].this_action.action = "init"
    /\ \A i \in 2..Len(ledger) : ValidTrade(i)

\* the fill price of the last trade in coin among the records 1..i
RECURSIVE LastFillPrice(_, _)
LastFillPrice(coin, i) ==
    IF i = 0 THEN Zero
    ELSE IF IsTrade(i) /\ ledger[i].this_action.symbol = coin
    THEN ledger[i].this_action.fill_price
    ELSE LastFillPrice(coin, i - 1)

CoinValue(coin) ==
    RMul(Qty(Current.positions, coin), LastFillPrice(coin, Len(ledger)))

RECURSIVE CoinsValue(_)
CoinsValue(S) ==
    IF S = {} THEN Zero
    ELSE LET coin == CHOOSE c \in S : TRUE
         IN  RAdd(CoinValue(coin), CoinsValue(S \ {coin}))

ReconstructibleEquity == RAdd(Qty(Current.positions, "CASH"), CoinsValue(Coins))

\* the fees recorded in the records 1..i
RECURSIVE FeesUpTo(_)
FeesUpTo(i) ==
    IF i = 0 THEN Zero ELSE RAdd(ledger[i].this_action.fee, FeesUpTo(i - 1))

FeesPaid == FeesUpTo(Len(ledger))

InflowsLessFees == RSub(Whole(START_CASH_KRW), FeesPaid)

C12_NoValueCreated ==
    OnlyValidTrades => RLe(ReconstructibleEquity, InflowsLessFees)

\* no symbol is traded at a fill price above that of an earlier trade in it
NoFillPriceRise ==
    \A i, j \in 2..Len(ledger) :
        (i < j /\ ledger[i].this_action.symbol = ledger[j].this_action.symbol)
            => RLe(ledger[j].this_action.fill_price, ledger[i].this_action.fill_price)

\* C12 as amended: the bound holds as long as no symbol is traded at a fill
\* price above that of an earlier trade in it.
C12_NoValueCreatedWithoutPriceRise ==
    (OnlyValidTrades /\ NoFillPriceRise)
        => RLe(ReconstructibleEquity, InflowsLessFees)

\* two valid trades in one symbol, the second at a lower fill price, with
\* some of the coin still held: the equity is strictly below the bound
C12_Witness ==
    /\ Len(ledger) = 3
    /\ OnlyValidTrades
    /\ ledger[2].this_action.symbol = ledger[3].this_action.symbol
    /\ RLt(ledger[3].this_action.fill_price, ledger[2].this_action.fill_price)
    /\ RGt(Qty(Current.positions, ledger[3].this_action.symbol), Zero)
    /\ RLt(ReconstructibleEquity, InflowsLessFees)

----------------------------------------------------------------------------
(* C19: when the price feed returns no usable price for a market order, a   *)
(* paper buy or sell returns 'Failed to fetch ticker price', appends no     *)
(* trade snapshot and leaves the traded flag alone; no market trade in the  *)
(* ledger has a fill price <= 0.                                            *)

\* the most recent call is a market buy or sell that asked the feed for a
\* price and got none (sell asks only after its holding check)
FeedGaveNoPrice ==
    /\ Traded("buy") \/ Traded("sell")
    /\ last.market_order
    /\ RLe(last.feed, Zero)
    /\ last.op = "sell" =>
           ~InsufficientPosition(last.amount,
                                 Qty(Before.positions, CoinOf(last.symbol)))

----------------------------------------------------------------------------
(* C14: on a fresh account, any number of calls of _bootstrap_if_missing,   *)
(* directly or through get_balance/buy/sell, leaves exactly one init        *)
(* record; when the ledger file already exists the call appends nothing.    *)

InitRecords(lines) ==
    {i \in 1..Len(lines) : lines[i].this_action.action = "init"}

C14_BootstrapIdempotent ==
    LET once == _bootstrap_if_missing(File)
        twice == _bootstrap_if_missing(once)
    IN  /\ Cardinality(InitRecords(once.lines)) = 1
        /\ twice = once
        /\ fileExists => once = File
        /\ last.op # "none" =>
               Cardinality(InitRecords(_bootstrap_if_missing(last.pre).lines)) = 1

\* a call bootstrapped again on an account whose ledger already held the init
\* record and a trade
C14_Witness ==
    /\ last.op = "get_balance"
    /\ last.result = "balances"
    /\ Len(last.pre.lines) = 2
    /\ Len(ledger) = 2
    /\ ledger[1].this_action.action = "init"
    /\ ledger[2].this_action.action = "buy"

----------------------------------------------------------------------------
(* C13: in every ledger reached through paper get_balance/buy/sell calls    *)
(* from a ledger without records (file missing, or present but empty),      *)
(* exactly one record has action 'init'; it is the first record, has id 0,  *)
(* positions {CASH: START_CASH}, no avg_costs and realized_pnl 0.           *)

C13_ExactlyOneInit ==
    last.op # "none" /\ last.result # "SIGNATURE is not set" =>
        /\ InitRecords(ledger) = {1}
        /\ ledger[1] = Record(0, InitAction,
                              [k \in {"CASH"} |-> Whole(START_CASH_KRW)],
                              EmptyDict, Zero)

----------------------------------------------------------------------------
(* C15: _read_last_ext of the paper facade returns, for any ledger content  *)
(* with malformed lines at any position, the state of the record with the   *)
(* greatest id among all well-formed records, those after a malformed line  *)
(* included (the first one on equal ids), and ({}, {}, 0.0, -1) when there  *)
(* is no ledger file.                                                       *)

StateOf(doc) ==
    [positions |-> doc.positions, avg_costs |-> doc.avg_costs,
     realized_pnl |-> doc.realized_pnl, max_id |-> doc.id]

\* the first record with the greatest id among the well-formed lines
GreatestIdRecord(lines) ==
    LET records == {i \in 1..Len(lines) : lines[i].wf}
        first == CHOOSE i \in records :
                     \A j \in records :
                         \/ lines[j].id < lines[i].id
                         \/ lines[j].id = lines[i].id /\ i <= j
    IN  IF records = {} THEN NoState ELSE StateOf(lines[first])

C15_ReadSkipsMalformedLines ==
    seen.by = "_read_last_ext" =>
        seen.state = IF seen.file.exists THEN GreatestIdRecord(seen.file.lines)
                     ELSE NoState

----------------------------------------------------------------------------
(* C17: when two paper buy/sell calls on one account interleave without     *)
(* serialization, a state is reachable in which two records carry the same  *)
(* id, or in which the greatest-id record lacks the effect of one of the    *)
(* two successful trades; with the calls serialized neither is reachable.   *)

DuplicateId ==
    \E i, j \in 1..Len(ledger) :
        i < j /\ ledger[i].wf /\ ledger[j].wf /\ ledger[i].id = ledger[j].id

\* the quantity of coin that the trades recorded in the records 1..i add up to
RECURSIVE TradedNet(_, _)
TradedNet(coin, i) ==
    IF i = 0 THEN Zero
    ELSE LET act == ledger[i].this_action
             rest == TradedNet(coin, i - 1)
         IN  IF act.symbol # coin THEN rest
             ELSE IF act.action = "buy" THEN RAdd(rest, act.amount)
             ELSE IF act.action = "sell" THEN RSub(rest, act.amount)
             ELSE rest

\* the current state lacks a trade that is in the ledger
LostUpdate ==
    \E coin \in Coins :
        Qty(Current.positions, coin) # TradedNet(coin, Len(ledger))

C17_SerializedCallsLoseNothing ==
    serialized => ~DuplicateId /\ ~LostUpdate

\* two calls that interleaved have both returned "filled": their records
\* carry the same id and the current state lacks one of the two trades
C17_Witness ==
    /\ ~serialized
    /\ InFlight = 0
    /\ Len(ledger) = 3
    /\ IsTrade(2) /\ IsTrade(3)
    /\ DuplicateId
    /\ LostUpdate

----------------------------------------------------------------------------
(* C16: a reader (_read_last_ext or the dashboard's _jsonl_rows) that runs  *)
(* while a writer is in the middle of appending a record, so that the file  *)
(* ends in a partially written line, returns exactly the records/state of   *)
(* the ledger as it was before that append started, and the writer is not   *)
(* blocked by the reader.                                                   *)

\* the most recent read found the file ending in a line without its newline
ReadMidAppend ==
    /\ seen.by # "none"
    /\ Len(seen.file.lines) > 0
    /\ ~seen.file.lines[Len(seen.file.lines)].nl

\* the partial line the read found
PartialSeen == seen.file.lines[Len(seen.file.lines)]

\* the file the read found, as it was before the append started
BeforeAppend ==
    [exists |-> seen.file.exists,
     lines |-> SubSeq(seen.file.lines, 1, Len(seen.file.lines) - 1)]

WriterNotBlocked ==
    \A w \in Writers : calls[w].pc = "writing" => ENABLED AppendRest(w)

C16_ReaderSeesStateBeforeAppend ==
    /\ ReadMidAppend =>
           /\ seen.by = "_read_last_ext" => seen.state = _read_last_ext(BeforeAppend)
           /\ seen.by = "_jsonl_rows" => seen.rows = _jsonl_rows(BeforeAppend)
    /\ WriterNotBlocked

\* C16 as amended: the reader returns the ledger as it was before the append
\* while the partial line is cut inside the record's JSON text; once the
\* whole text is there and only the newline is missing, the reader returns
\* the new record as well.
C16_ReaderSkipsCutLine ==
    /\ ReadMidAppend =>
           IF PartialSeen.json
           THEN /\ seen.by = "_read_last_ext" => seen.state = StateOf(PartialSeen)
                /\ seen.by = "_jsonl_rows" =>
                       seen.rows = Append(_jsonl_rows(BeforeAppend), PartialSeen)
           ELSE /\ seen.by = "_read_last_ext" =>
                       seen.state = _read_last_ext(BeforeAppend)
                /\ seen.by = "_jsonl_rows" => seen.rows = _jsonl_rows(BeforeAppend)
    /\ WriterNotBlocked

\* the dashboard read the file while the last line was cut inside the record
\* and got the rows from before the append; the writer has since finished
C16_Witness ==
    /\ ReadMidAppend
    /\ seen.by = "_jsonl_rows"
    /\ ~PartialSeen.json
    /\ Len(seen.rows) = Len(seen.file.lines) - 1
    /\ InFlight = 0
    /\ last.result = "filled"
    /\ Len(ledger) = Len(seen.file.lines)
    /\ ledger[Len(ledger)].wf

----------------------------------------------------------------------------
(* C18: the ledger is append-only: after any paper-facade or dashboard      *)
(* operation the records previously in the ledger are an unchanged prefix   *)
(* of it; no operation modifies, reorders or removes a record.              *)

\* the records a reader finds in the file, in file order
RecordsOf(lines) ==
    LET records == SelectSeq(lines, LAMBDA line : line.wf)
    IN  [i \in 1..Len(records) |-> [records[i] EXCEPT !.nl = TRUE]]

IsPrefix(s, t) == Len(s) <= Len(t) /\ SubSeq(t, 1, Len(s)) = s

C18_AppendOnly ==
    [][/\ IsPrefix(RecordsOf(ledger), RecordsOf(ledger'))
       /\ fileExists => fileExists']_vars

\* a trade was appended behind two earlier records, and the dashboard has
\* read the three of them
C18_Witness ==
    /\ last.result = "filled"
    /\ Len(last.pre.lines) = 2
    /\ Len(ledger) = 3
    /\ IsPrefix(RecordsOf(last.pre.lines), RecordsOf(ledger))
    /\ seen.by = "_jsonl_rows"
    /\ Len(seen.rows) = 3

----------------------------------------------------------------------------
(* C20: in both facade variants a buy or sell made while no account         *)
(* signature is configured returns a structured error result instead of     *)
(* raising and creates or modifies no ledger file; no validation failure of *)
(* buy/sell is thrown.                                                      *)

\* the most recent call is a buy or sell, of either facade, that found no
\* SIGNATURE
CallWithoutSignature ==
    /\ last.op \in {"buy", "sell", "live buy", "live sell"}
    /\ _get_config_value(last.preEnv, "SIGNATURE") = NoValue

C20_ValidationFailuresAreReturned ==
    /\ last.result \notin Exceptions
    /\ CallWithoutSignature =>
           /\ fileExists = last.pre.exists
           /\ ledger = last.pre.lines

----------------------------------------------------------------------------
(* C21: the paper get_balance appends the init snapshot only when the       *)
(* account has no ledger file and otherwise leaves the ledger alone; it     *)
(* never touches the trade-occurred flag; it returns the positions, cash,   *)
(* avg_costs and realized_pnl of the current state, and held_coins is       *)
(* exactly the set of non-CASH symbols whose current quantity is > 0.       *)

C21_GetBalanceReadsOnly ==
    Traded("get_balance") =>
        /\ NoTradeAppended
        /\ last.env = last.preEnv
        /\ last.result = "balances"
        /\ last.info.balances = Current.positions
        /\ last.info.cash = Qty(Current.positions, "CASH")
        /\ last.info.avg_costs = Current.avg_costs
        /\ last.info.realized_pnl = Current.realized_pnl
        /\ last.info.held =
               {k \in DOMAIN Current.positions :
                    k # "CASH" /\ RGt(Current.positions[k], Zero)}

\* a balance query of an account that holds a coin, after a trade
C21_Witness ==
    /\ Traded("get_balance")
    /\ Len(ledger) = 2
    /\ last.pre.exists
    /\ IfTrade(last.preEnv)
    /\ last.info.held = {"X"}

\* a balance query that created the ledger
C21_WitnessBootstrap ==
    /\ Traded("get_balance")
    /\ ~last.pre.exists
    /\ Len(ledger) = 1

----------------------------------------------------------------------------
(* C27: a successful paper buy changes only CASH, the position of the       *)
(* bought coin and the average cost of the bought coin: realized_pnl of the *)
(* new snapshot is that of the previous one, and the position and average   *)
(* cost of every other symbol are those of the previous snapshot.           *)

OtherKeys(new, old, coin) == ((DOMAIN new) \cup (DOMAIN old)) \ {"CASH", coin}

SameElsewhere(new, old, coin) ==
    \A k \in OtherKeys(new, old, coin) :
        k \in DOMAIN new /\ k \in DOMAIN old /\ new[k] = old[k]

C27_BuyFrame ==
    (Traded("buy") /\ last.result = "filled") =>
        LET coin == Snapshot.this_action.symbol
        IN  /\ Snapshot.realized_pnl = Before.realized_pnl
            /\ SameElsewhere(Snapshot.positions, Before.positions, coin)
            /\ SameElsewhere(Snapshot.avg_costs, Before.avg_costs, coin)
            /\ "CASH" \in DOMAIN Snapshot.positions
            /\ coin \in DOMAIN Snapshot.positions
            /\ coin \in DOMAIN Snapshot.avg_costs

\* a buy filled while another coin is held
C27_Witness ==
    /\ Traded("buy")
    /\ last.result = "filled"
    /\ LET coin == Snapshot.this_action.symbol
       IN  \E k \in OtherKeys(Snapshot.positions, Before.positions, coin) :
               /\ RGt(Qty(Before.positions, k), Zero)
               /\ RGt(Qty(Before.avg_costs, k), Zero)

----------------------------------------------------------------------------
(* C29: in every snapshot the paper facade committed, from init through any *)
(* sequence of filled buys and sells with positive quantities and prices,   *)
(* CASH plus the holdings at their average cost equals START_CASH plus      *)
(* realized_pnl less the fees of all trades so far.                         *)

\* the symbols of S in the record doc, each at its average cost
RECURSIVE BookValue(_, _)
BookValue(doc, S) ==
    IF S = {} THEN Zero
    ELSE LET k == CHOOSE x \in S : TRUE
         IN  RAdd(RMul(Qty(doc.positions, k), Qty(doc.avg_costs, k)),
                  BookValue(doc, S \ {k}))

BookValueIdentity(i) ==
    LET doc == ledger[i]
    IN  RAdd(Qty(doc.positions, "CASH"),
             BookValue(doc, (DOMAIN doc.positions) \ {"CASH"}))
          = RSub(RAdd(Whole(START_CASH_KRW), doc.realized_pnl), FeesUpTo(i))

C29_BookValueIdentity ==
    OnlyValidTrades => \A i \in 1..Len(ledger) : BookValueIdentity(i)

\* a buy at one price, then a sell of part of it at another price
C29_Witness ==
    /\ OnlyValidTrades
    /\ Len(ledger) = 3
    /\ ledger[2].this_action.action = "buy"
    /\ ledger[3].this_action.action = "sell"
    /\ ledger[3].realized_pnl # Zero
    /\ RGt(Qty(ledger[3].positions, ledger[3].this_action.symbol), Zero)

----------------------------------------------------------------------------
(* C28: the live-exchange buy and sell append a position snapshot and set   *)
(* IF_TRADE only on success: when the order submission returns an error     *)
(* result (HTTP status >= 400) or raises, the ledger is as before the call  *)
(* and IF_TRADE is not set.                                                  *)

LiveOrderFailed ==
    /\ last.op \in {"live buy", "live sell"}
    /\ last.result \in {"HTTP error", "error: str(e)"}

C28_LiveRecordsOnlyOnSuccess ==
    LiveOrderFailed =>
        /\ File = last.pre
        /\ last.env = last.preEnv

\* an order the exchange refused with an HTTP error, recorded all the same
C28_RefusedOrderRecorded ==
    /\ LiveOrderFailed
    /\ last.result = "HTTP error"
    /\ ~IfTrade(last.preEnv)
    /\ IfTrade(last.env)
    /\ Len(ledger) = Len(last.pre.lines) + 1
    /\ ledger[Len(ledger)].this_action.action \in {"buy", "sell"}

----------------------------------------------------------------------------
(* C30: after an interrupted append has left an unterminated partial line   *)
(* at the end of the ledger, the next successful paper append is durable    *)
(* and visible: a following read of the current state returns the positions *)
(* and the id of the newly appended snapshot, and the id assigned after it  *)
(* is one greater.                                                           *)

EndsUnterminated(lines) == Len(lines) > 0 /\ ~lines[Len(lines)].nl

\* the most recent call returned "filled" on a ledger that ended in a
\* partial line, and nothing was written since
AppendedAfterPartialLine ==
    /\ last.result = "filled"
    /\ last.pre.exists
    /\ EndsUnterminated(last.pre.lines)
    /\ InFlight = 0

C30_AppendAfterPartialLineIsVisible ==
    AppendedAfterPartialLine =>
        /\ Current.max_id = last.info.snapshot.id
        /\ Current.positions = last.info.snapshot.positions
        /\ NextId(Current.max_id) = last.info.snapshot.id + 1

\* the trade appended after the interrupted write is not in the state read
C30_AppendedSnapshotLost ==
    /\ AppendedAfterPartialLine
    /\ last.info.snapshot.id = 1
    /\ Current.max_id = 0
    /\ Current.positions # last.info.snapshot.positions

----------------------------------------------------------------------------
(* C25: get_positions(account, limit) returns the last min(limit, n) of the *)
(* n well-formed ledger records, in file order, when limit >= 1, and all n  *)
(* in file order when limit is None; latest_position returns the last of    *)
(* them.  The records are those of the file as the call read it, or as the  *)
(* call that filled the positions cache entry read it.                      *)

\* the rows the most recent dashboard call worked on
RowsRead == dash.cache["positions:acct"].value

\* the last k of rows, in their order
LastOf(rows, k) == [i \in 1..k |-> rows[Len(rows) - k + i]]

Min(a, b) == IF a < b THEN a ELSE b

C25_PositionsAreTheLastRecords ==
    /\ (dash.out.op \in {"get_positions", "latest_position"} /\ dash.out.miss)
           => RowsRead = RecordsOf(dash.out.file.lines)
    /\ (dash.out.op = "get_positions" /\ dash.out.limit.some)
           => dash.out.value = LastOf(RowsRead, Min(dash.out.limit.n, Len(RowsRead)))
    /\ (dash.out.op = "get_positions" /\ ~dash.out.limit.some)
           => dash.out.value = RowsRead
    /\ dash.out.op = "latest_position"
           => IF Len(RowsRead) = 0 THEN dash.out.value = NoRow
              ELSE dash.out.value = [found |-> TRUE, row |-> RowsRead[Len(RowsRead)]]

\* two of three records asked for and read from the file
C25_Witness ==
    /\ dash.out.op = "get_positions"
    /\ dash.out.miss
    /\ dash.out.limit = Limit(2)
    /\ Len(RecordsOf(dash.out.file.lines)) = 3
    /\ dash.out.value = SubSeq(dash.out.file.lines, 2, 3)

\* the latest of three records, served from the cache entry a read of the
\* positions filled
C25_WitnessLatest ==
    /\ dash.out.op = "latest_position"
    /\ ~dash.out.miss
    /\ Len(dash.out.file.lines) = 3
    /\ dash.out.value.found
    /\ dash.out.value.row = dash.out.file.lines[3]

----------------------------------------------------------------------------
(* C22: portfolio_timeseries(account, limit) returns one entry for each     *)
(* ledger snapshot among the most recent `limit` (all when limit is None),  *)
(* in ledger order; the equity of an entry is the CASH of its snapshot plus *)
(* the sum over its non-CASH positive holdings of quantity * daily close on *)
(* the snapshot's date, a failed price fetch contributing 0.                *)

\* the daily close the dashboard process holds for a symbol of row
CloseUsed(row, sym) == Get(dash.price_cache, <<sym, DateOf(row)>>, Zero)

\* the positive non-CASH holdings of row among S, at their daily close
RECURSIVE HoldingsAtClose(_, _)
HoldingsAtClose(row, S) ==
    IF S = {} THEN Zero
    ELSE LET sym == CHOOSE x \in S : TRUE
             rest == HoldingsAtClose(row, S \ {sym})
         IN  IF sym # "CASH" /\ RGt(row.positions[sym], Zero)
             THEN RAdd(RMul(row.positions[sym], CloseUsed(row, sym)), rest)
             ELSE rest

EquityOf(row) ==
    RAdd(Qty(row.positions, "CASH"), HoldingsAtClose(row, DOMAIN row.positions))

\* the most recent call computed the equity series from the rows
SeriesLoaded ==
    /\ dash.out.op = "portfolio_timeseries"
    /\ dash.out.miss
    /\ ~dash.out.raised

\* the snapshots the series is asked for
SeriesRows ==
    IF dash.out.limit.some
    THEN LastOf(RowsRead, Min(dash.out.limit.n, Len(RowsRead)))
    ELSE RowsRead

C22_OneEntryPerSnapshot ==
    SeriesLoaded =>
        /\ Len(dash.out.value) = Len(SeriesRows)
        /\ \A i \in 1..Len(SeriesRows) :
               /\ dash.out.value[i].cash = Qty(SeriesRows[i].positions, "CASH")
               /\ dash.out.value[i].equity = EquityOf(SeriesRows[i])

\* a series of one entry computed from a ledger of three snapshots
C22_OneEntryForThreeSnapshots ==
    /\ SeriesLoaded
    /\ ~dash.out.limit.some
    /\ Len(RowsRead) = 3
    /\ RowsRead = RecordsOf(dash.out.file.lines)
    /\ Len(dash.out.value) = 1
    /\ dash.out.value[1].equity = EquityOf(RowsRead[3])
    /\ dash.out.value[1].equity # dash.out.value[1].cash

----------------------------------------------------------------------------
(* C23: for an account with no ledger file, or an empty one, every          *)
(* read-model projection (get_positions, latest_position,                   *)
(* portfolio_timeseries, holdings_with_prices, get_trade_actions) and every *)
(* per-account route built on them yields an explicit no-data result (an    *)
(* empty list, None, an empty structure, HTTP not-found) and raises no      *)
(* unhandled exception.                                                      *)

\* the ledger file of the most recent dashboard call held no snapshot
CalledWithoutData ==
    /\ dash.out.op # "none"
    /\ RecordsOf(dash.out.file.lines) = << >>

\* the value of the most recent dashboard call is the no-data value of its
\* projection
NoDataValue ==
    CASE dash.out.op = "latest_position" -> dash.out.value = NoRow
      [] dash.out.op = "holdings_with_prices" -> dash.out.value = NoHoldings
      [] OTHER -> dash.out.value = << >>

C23_NoDataIsNotAFault ==
    CalledWithoutData =>
        /\ ~dash.out.raised
        /\ dash.out.response \in {"none", "404 Not Found", "200 OK"}
        /\ NoDataValue

\* the portfolio route of an account without a ledger file fails with an
\* exception
C23_PortfolioRouteFails ==
    /\ CalledWithoutData
    /\ ~dash.out.file.exists
    /\ dash.out.op = "portfolio_timeseries"
    /\ dash.out.raised
    /\ dash.out.value = "UnboundLocalError"
    /\ dash.out.response = "500 Internal Server Error"

\* the other projections of an account without a ledger file give their
\* no-data value
C23_OthersGiveNoData ==
    (CalledWithoutData /\ dash.out.op # "portfolio_timeseries") =>
        /\ ~dash.out.raised
        /\ dash.out.response \in {"none", "404 Not Found", "200 OK"}
        /\ NoDataValue

----------------------------------------------------------------------------
(* C24: holdings_with_prices(account) lists exactly the non-CASH symbols    *)
(* with quantity > 0 in the latest snapshot, each with value = quantity *   *)
(* live ticker price; a symbol whose live price could not be fetched (the   *)
(* batch failed, or the symbol is absent from the answer) gets price 0 and  *)
(* value 0, and the call does not fail.                                     *)

\* the most recent call computed the holdings from the latest snapshot
HoldingsLoaded ==
    /\ dash.out.op = "holdings_with_prices"
    /\ dash.out.miss

\* the live price the ticker answer of the most recent call gave for sym
Fetched(sym) ==
    IF dash.out.answer.status = 200 /\ sym \in dash.out.answer.listed
    THEN LivePrice(sym)
    ELSE Zero

\* the entries of the holdings list for the snapshot row
HoldingsFor(row) ==
    {[symbol |-> sym, quantity |-> row.positions[sym],
      avg_cost |-> Get(row.avg_costs, sym, Zero), last_price |-> Fetched(sym),
      value |-> RMul(row.positions[sym], Fetched(sym))] :
         sym \in {k \in DOMAIN row.positions :
                      k # "CASH" /\ RGt(row.positions[k], Zero)}}

C24_HoldingsAtLivePrice ==
    HoldingsLoaded =>
        /\ ~dash.out.raised
        /\ dash.out.response = "200 OK"
        /\ IF Len(RowsRead) = 0
           THEN dash.out.value = NoHoldings
           ELSE dash.out.value.holdings = HoldingsFor(RowsRead[Len(RowsRead)])

\* two coins held and one sold out; the answer has the price of one of the
\* two only
C24_Witness ==
    /\ HoldingsLoaded
    /\ RowsRead = RecordsOf(dash.out.file.lines)
    /\ dash.out.answer = [status |-> 200, listed |-> {"X"}]
    /\ {h.symbol : h \in dash.out.value.holdings} = {"X", "Y"}
    /\ \E h \in dash.out.value.holdings : h.symbol = "Y" /\ h.value = Zero
    /\ \E h \in dash.out.value.holdings : h.symbol = "X" /\ RGt(h.value, Zero)

\* a coin sold out is not listed
C24_WitnessSoldOut ==
    /\ HoldingsLoaded
    /\ Len(RowsRead) = 3
    /\ "X" \in DOMAIN RowsRead[3].positions
    /\ dash.out.value.holdings = {}

----------------------------------------------------------------------------
(* C26: every read-model cache entry (positions rows, portfolio series,     *)
(* holdings, the per-(symbol, date) daily price) expires after a fixed      *)
(* time-to-live: a lookup made after the TTL of the entry has elapsed       *)
(* queries the underlying source again and returns its current value, so a  *)
(* price fetch that failed once is not returned as 0 forever once the feed  *)
(* recovers.                                                                 *)

\* the positive non-CASH holdings of row among S, at the daily close the
\* exchange has
RECURSIVE HoldingsAtFeedClose(_, _)
HoldingsAtFeedClose(row, S) ==
    IF S = {} THEN Zero
    ELSE LET sym == CHOOSE x \in S : TRUE
             rest == HoldingsAtFeedClose(row, S \ {sym})
         IN  IF sym # "CASH" /\ RGt(row.positions[sym], Zero)
             THEN RAdd(RMul(row.positions[sym], ClosePrice(sym)), rest)
             ELSE rest

\* the most recent call computed the series anew, the TTL of its entry having
\* elapsed, while the candle feed answered
SeriesLoadedWithFeedUp ==
    /\ SeriesLoaded
    /\ dash.out.expired
    /\ dash.out.answer.status = 200

C26_ExpiredEntriesAreReloaded ==
    SeriesLoadedWithFeedUp =>
        LET row == RowsRead[Len(RowsRead)]
            entry == dash.out.value[Len(dash.out.value)]
        IN  entry.equity =
                RAdd(Qty(row.positions, "CASH"),
                     HoldingsAtFeedClose(row, DOMAIN row.positions))

\* the feed is back and the portfolio entry has expired, and the series
\* still values a held coin at the 0 of the failed fetch
C26_FailedFetchKeptForever ==
    /\ SeriesLoadedWithFeedUp
    /\ DOMAIN dash.cache = {"positions:acct", PortfolioKey(dash.out.limit)}
    /\ \E sym \in DashCoins :
           /\ RGt(Qty(RowsRead[Len(RowsRead)].positions, sym), Zero)
           /\ CloseUsed(RowsRead[Len(RowsRead)], sym) = Zero
    /\ dash.out.value[1].equity = dash.out.value[1].cash

----------------------------------------------------------------------------
(* C37: when dry-run mode is on (the default; any UPBIT_DRY_RUN value other *)
(* than false, 0 or no), no live buy or sell call, whatever its arguments,  *)
(* sends an order request to the exchange: _submit_order returns a dry-run  *)
(* result without calling _post.                                            *)

LiveCall == last.op \in {"live buy", "live sell"}

\* the results of a live call that got as far as _submit_order
OrderResults == {"dry_run", "accepted", "HTTP error", "error: str(e)"}

C37_DryRunSendsNothing ==
    (LiveCall /\ DRY_RUN) =>
        /\ ~last.info.posted
        /\ last.result \in OrderResults => last.result = "dry_run"

\* a dry-run market buy that was recorded, under an unset UPBIT_DRY_RUN
C37_Witness ==
    /\ LiveCall
    /\ DRY_RUN
    /\ "UPBIT_DRY_RUN" \notin DOMAIN osEnv
    /\ last.result = "dry_run"
    /\ last.market_order
    /\ Len(ledger) = Len(last.pre.lines) + 1

\* with UPBIT_DRY_RUN=FALSE the order is sent
C37_WitnessSent ==
    /\ LiveCall
    /\ Get(osEnv, "UPBIT_DRY_RUN", "true") = "FALSE"
    /\ last.info.posted
    /\ last.result = "accepted"

----------------------------------------------------------------------------
(* C38: when the cap UPBIT_MAX_BUY_KRW is > 0, a live market buy asking for *)
(* more KRW than the cap returns an error without submitting an order,      *)
(* appending a snapshot or setting IF_TRADE; when the cap is 0 the guard is *)
(* off and no request is rejected for its size.                             *)

\* the cap the environment of the process states: 50000 KRW, or none
StatedCap ==
    IF Get(osEnv, "UPBIT_MAX_BUY_KRW", "0") = "50000" THEN Whole(50000) ELSE Zero

\* the most recent call was a live market buy of a stated KRW amount
LiveMarketBuy ==
    /\ last.op = "live buy"
    /\ last.market_order
    /\ ~IsNone(last.price)

C38_CapRejectsLargeMarketBuy ==
    /\ (LiveMarketBuy /\ RGt(StatedCap, Zero)
                      /\ RGt(last.price, StatedCap))
           => /\ last.result = "requested KRW exceeds UPBIT_MAX_BUY_KRW"
              /\ ~last.info.posted
              /\ File = last.pre
              /\ last.env = last.preEnv
    /\ (LiveCall /\ StatedCap = Zero)
           => last.result # "requested KRW exceeds UPBIT_MAX_BUY_KRW"
    /\ (LiveMarketBuy /\ RLe(last.price, StatedCap))
           => last.result # "requested KRW exceeds UPBIT_MAX_BUY_KRW"

\* orders are really sent, the cap is 50000 and 100000 KRW are asked for
C38_Witness ==
    /\ LiveMarketBuy
    /\ ~DRY_RUN
    /\ StatedCap = Whole(50000)
    /\ last.price = Whole(100000)
    /\ last.result = "requested KRW exceeds UPBIT_MAX_BUY_KRW"
    /\ Len(last.pre.lines) = 1

\* no cap (the value is not a number): 100000 KRW are sent to the exchange
C38_WitnessNoCap ==
    /\ LiveMarketBuy
    /\ Get(osEnv, "UPBIT_MAX_BUY_KRW", "0") = "abc"
    /\ last.price = Whole(100000)
    /\ last.info.posted
    /\ last.result = "accepted"

----------------------------------------------------------------------------
(* C32: in every ledger produced by single-writer paper operations the      *)
(* record that is physically last in the file is the record with the        *)
(* greatest id, so on a cold cache the dashboard's latest_position (the     *)
(* last row), the agent loop's read of the last line and the ledger store's *)
(* current state (_read_last_ext, greatest id) agree on id, positions,      *)
(* avg_costs and realized_pnl.                                              *)

\* latest_position read the file itself and found a record
LatestRead ==
    /\ dash.out.op = "latest_position"
    /\ dash.out.miss
    /\ dash.out.value.found

C32_LastRecordIsCurrent ==
    /\ LatestRead =>
           LET cur == _read_last_ext(dash.out.file)
               row == dash.out.value.row
           IN  /\ row.id = cur.max_id
               /\ row.positions = cur.positions
               /\ row.avg_costs = cur.avg_costs
               /\ row.realized_pnl = cur.realized_pnl
    /\ (dash.out.op = "latest_position" /\ dash.out.miss /\ ~dash.out.value.found)
           => _read_last_ext(dash.out.file).max_id = -1
    /\ (seen.by = "main" /\ RecordsOf(seen.file.lines) # << >>)
           => LET cur == _read_last_ext(seen.file)
              IN  /\ seen.state.positions = cur.positions
                  /\ seen.state.avg_costs = cur.avg_costs
                  /\ seen.state.realized_pnl = cur.realized_pnl

\* the third of three records, with a realized profit or loss, read by the
\* dashboard and by the agent loop
C32_Witness ==
    /\ LatestRead
    /\ dash.out.value.row.id = 2
    /\ dash.out.value.row.this_action.action = "sell"
    /\ dash.out.value.row.realized_pnl # Zero
    /\ seen.by = "main"
    /\ seen.file = dash.out.file

----------------------------------------------------------------------------
(* C34: for a paper limit order (market_order = False, quantity and limit   *)
(* price given) the returned result and the appended snapshot are the same  *)
(* for every value the price feed returns, an unavailable price included:   *)
(* two runs from the same ledger state that differ only in the price feed   *)
(* have identical outcomes.                                                  *)

\* the most recent call was a paper limit order with quantity and price
LimitOrder ==
    /\ last.op \in {"buy", "sell"}
    /\ _get_config_value(last.preEnv, "SIGNATURE") # NoValue
    /\ ~last.market_order
    /\ ~IsNone(last.amount)
    /\ ~IsNone(last.price)

\* the most recent call run again from the state it started in, the feed
\* returning feed
Rerun(feed) ==
    IF last.op = "buy"
    THEN buy(last.pre, last.preEnv, last.symbol, last.amount, last.price,
             last.market_order, feed)
    ELSE sell(last.pre, last.preEnv, last.symbol, last.amount, last.price,
              last.market_order, feed)

C34_LimitOrderIgnoresFeed ==
    LimitOrder =>
        \A feed \in FeedPrices :
            /\ Rerun(feed).result = last.result
            /\ Rerun(feed).file = File
            /\ Rerun(feed).env = last.env
            /\ Rerun(feed).info.snapshot = last.info.snapshot

\* a limit buy that is filled with the feed up is refused with the feed down
C34_LimitBuyNeedsFeed ==
    /\ LimitOrder
    /\ last.op = "buy"
    /\ last.feed = Zero
    /\ last.result = "Failed to fetch ticker price"
    /\ \E feed \in FeedPrices :
           /\ Rerun(feed).result = "filled"
           /\ Rerun(feed).info.snapshot.this_action.fill_price = last.price

----------------------------------------------------------------------------
(* C36: the ledger reader of the live facade and the ledger reader of the   *)
(* paper facade are equivalent: for every content of the ledger file, a     *)
(* malformed line followed by well-formed records included, both return the *)
(* same (positions, avg_costs, realized_pnl, max_id), so the next id either *)
(* facade would assign is the same.                                          *)

\* a line json.loads rejects comes before a record
MalformedBeforeRecord(lines) ==
    \E i, j \in 1..Len(lines) : i < j /\ ~lines[i].json /\ lines[j].wf

C36_ReadersAgree ==
    seen.by \in {"_read_last_ext", "live _read_last_ext"} =>
        /\ seen.file = File
        /\ _read_last_ext(File) = LiveReadLastExt(File)
        /\ NextId(_read_last_ext(File).max_id)
               = NextId(LiveReadLastExt(File).max_id)

\* the live reader stops at the malformed line and misses the record after it
C36_LiveReaderStopsAtMalformedLine ==
    /\ seen.by = "live _read_last_ext"
    /\ seen.file = File
    /\ MalformedBeforeRecord(ledger)
    /\ seen.state.max_id < _read_last_ext(File).max_id
    /\ NextId(seen.state.max_id) < NextId(_read_last_ext(File).max_id)

----------------------------------------------------------------------------
(* C31: the trade-occurred flag IF_TRADE is set to true only by a paper buy *)
(* or sell whose snapshot was committed: when the ledger append fails with  *)
(* a storage error, the error propagates to the caller, the ledger is       *)
(* unchanged, nothing is retried, and IF_TRADE keeps its previous value.    *)

\* the most recent call ended in the storage error of its append
AppendFailed == last.op \in {"buy", "sell"} /\ last.result = "OSError"

\* the most recent call turned the flag on
FlagTurnedOn ==
    /\ last.op \in {"buy", "sell"}
    /\ IfTrade(last.env)
    /\ ~IfTrade(last.preEnv)

C31_FlagOnlyAfterCommit ==
    /\ AppendFailed =>
           /\ File = last.pre
           /\ last.info.snapshot = NoSnapshot
           /\ IfTrade(last.env) = IfTrade(last.preEnv)
    /\ FlagTurnedOn =>
           /\ last.result = "filled"
           /\ Len(ledger) > 0
           /\ ledger[Len(ledger)] = last.info.snapshot

\* the append failed, the ledger is as it was, and the flag went from false
\* to true
C31_FlagSetWithoutSnapshot ==
    /\ AppendFailed
    /\ File = last.pre
    /\ ~IfTrade(last.preEnv)
    /\ "IF_TRADE" \in DOMAIN last.preEnv
    /\ IfTrade(runtimeEnv)

----------------------------------------------------------------------------
(* C33: read-model calls have no effect on what later read-model calls      *)
(* return for an unchanged ledger: get_positions(account) returns records   *)
(* with exactly the fields stored in the ledger file, whichever projections *)
(* (latest_position with a non-empty watchlist, holdings_with_prices,       *)
(* summary) were called before it within the cache TTL.                     *)

\* the fields of a record of the ledger file
StoredFields == DOMAIN NoSnapshot

\* the most recent dashboard call was get_positions and it returned rows
PositionsReturned ==
    /\ dash.out.op = "get_positions"
    /\ ~dash.out.raised
    /\ Len(dash.out.value) > 0

C33_PositionsHaveStoredFields ==
    PositionsReturned =>
        /\ \A i \in 1..Len(dash.out.value) :
               DOMAIN dash.out.value[i] = StoredFields
        /\ dash.out.file = File =>
               \A i \in 1..Len(dash.out.value) :
                   \E j \in 1..Len(ledger) : dash.out.value[i] = ledger[j]

\* get_positions, served from the cache, returns a last row that has a
\* watchlist field, for a ledger no record of which has one
C33_WatchlistLeaksIntoPositions ==
    /\ PositionsReturned
    /\ ~dash.out.miss
    /\ "watchlist" \in DOMAIN dash.out.value[Len(dash.out.value)]
    /\ \A j \in 1..Len(ledger) : DOMAIN ledger[j] = StoredFields

----------------------------------------------------------------------------
(* C35: dashboard staleness is bounded by the cache TTL: a get_positions,   *)
(* portfolio_timeseries or holdings_with_prices call made CACHE_TTL seconds *)
(* or more after a snapshot was appended to the ledger returns data that    *)
(* reflects that snapshot, whatever dashboard calls were made before.       *)

\* the snapshot appended last
LatestSnapshot == ledger[Len(ledger)]

\* the most recent dashboard call returned, CACHE_TTL or more after the
\* latest append, and the ledger is the one the call found
ReturnedLate(op) ==
    /\ dash.out.op = op
    /\ dash.out.late
    /\ ~dash.out.raised
    /\ dash.out.file = File
    /\ Len(ledger) > 0

\* what each projection shows of the latest snapshot
PositionsReflectLatest ==
    /\ Len(dash.out.value) > 0
    /\ dash.out.value[Len(dash.out.value)] = LatestSnapshot

SeriesReflectsLatest ==
    /\ Len(dash.out.value) > 0
    /\ dash.out.value[Len(dash.out.value)].cash
           = Get(LatestSnapshot.positions, "CASH", Zero)
    /\ dash.out.value[Len(dash.out.value)].realized_pnl
           = LatestSnapshot.realized_pnl

HoldingsReflectLatest ==
    /\ dash.out.value.positions = LatestSnapshot.positions
    /\ dash.out.value.realized_pnl = LatestSnapshot.realized_pnl

C35_StalenessBoundedByTTL ==
    /\ ReturnedLate("get_positions") => PositionsReflectLatest
    /\ ReturnedLate("portfolio_timeseries") => SeriesReflectsLatest
    /\ ReturnedLate("holdings_with_prices") => HoldingsReflectLatest

\* get_positions alone keeps the bound
C35_PositionsWithinTTL ==
    ReturnedLate("get_positions") => PositionsReflectLatest

\* a series served CACHE_TTL after the append from an entry that was filled
\* after the append, out of position rows cached before it
C35_StaleSeriesAfterTTL ==
    /\ ReturnedLate("portfolio_timeseries")
    /\ ~dash.out.miss
    /\ dash.cache["portfolio:acct:None"].at >= dash.written
    /\ ~SeriesReflectsLatest

\* the same for the holdings, whose entry lives HOLDINGS_TTL
C35_StaleHoldingsAfterTTL ==
    /\ ReturnedLate("holdings_with_prices")
    /\ ~dash.out.miss
    /\ dash.cache["holdings:acct"].at >= dash.written
    /\ ~HoldingsReflectLatest

====
